---- MODULE Spec2Model ----
(***************************************************************************)
(* OMusic playback orchestrator (src/src/services/player.js).              *)
(*                                                                         *)
(* The orchestrator is a singleton object driven by an event loop.  Every  *)
(* action below is one macrotask of that loop: a public method called by   *)
(* the UI, a device callback, a timer callback, or the continuation of an  *)
(* awaited catalog/file request.  A handler is translated as a function    *)
(* from the state record S to the state record after it, so that a method  *)
(* calling another method is operator application.                         *)
(*                                                                         *)
(* The download manager (src/src/services/download.js) is modelled the same *)
(* way: addTask, and the continuations of its worker loop.                 *)
(*                                                                         *)
(* Track 0 stands for null/undefined.  Queue indices are 0-based as in the *)
(* source; TLA+ sequences are 1-based, hence the "+ 1" in ListAt.          *)
(***************************************************************************)
EXTENDS Integers, Sequences, FiniteSets, Bags, TLC

\* ------------------------------------------------------------------ bounds
MaxTracks == 3          \* distinct track ids 1..MaxTracks
MaxAttempts == 3        \* play attempts accepted in one run
MaxRetryTimers == 1     \* scheduled change(+1) timers pending at once
MaxPlayWrites == 1      \* play() calls awaiting the write of play_list.json
MaxInitCalls == 2       \* initialize() calls issued in one run
MaxShuffleAttempts == 2 \* play attempts accepted in one run of SpecShuffle
MaxTasks == 4           \* download tasks admitted in one run
MaxWorkers == 2         \* invocations of _processQueue that can be in a loop
MaxCoverIds == 2        \* tracks whose cover is asked for
MaxCoverCalls == 3      \* getSongCoverUrl calls issued in one run
MaxLines == 2           \* lines of a lyric text
MaxSegs == 3            \* tags and text pieces on one line

\* --------------------------------------------------------------- constants
MAX_PLAYBACK_RETRIES == 3
PLAY_TIMEOUT == 8000
RETRY_BASE_DELAY == 1500
RETRY_STEP_DELAY == 1000
MODE_COUNT == 3
SESSION_MAX_AGE == 43200000
DOWNLOAD_GAP == 500

TrackIds == 1..MaxTracks
\* an attempt awaits its requests in the slot of its sequence number
Slots == 1..MaxAttempts
\* an awaited request: the continuation it resumes (stage), the track the
\* attempt resolved, and what has happened since it was issued (marks):
\* "ended" once the error handler or a reset has run, "prior" once private FM
\* has been started anew, "overtaken" once the newest attempt has made its
\* track current
NoReq == [stage |-> "none", song |-> 0, marks |-> {}]

\* what a handler was called with: its argument (direction, track id or
\* seed), and for a continuation the request it completed as it was when the
\* handler started; byRetry tells that the newest attempt was started by the
\* retry which the timeout of this request's attempt scheduled
NoOp ==
    [slot |-> 0, stage |-> "none", song |-> 0, marks |-> {},
     byRetry |-> FALSE, arg |-> 0]

\* ids with a record in downloadedSongs (loaded once by initialize)
DownloadedIds == {1}

Num(n) == [n |-> n, t |-> "number"]
NoId == [n |-> 0, t |-> "undefined"]
Ids ==
    LET
        \* a track id as a JavaScript value: the number n or the string of its digits
        IdTypes == {"number", "string"}
    IN
        {[n |-> n, t |-> t] : n \in TrackIds, t \in IdTypes}
\* String(id)
JsString(id) == [n |-> id.n, t |-> "string"]
\* a === b : no conversion, values of different types differ
StrictEquals(a, b) == a.t = b.t /\ a.n = b.n

\* player_state.json: the record _saveState writes; stamped tells whether it
\* has a timestamp, age is Date.now() minus that timestamp
NoSession ==
    [lastSongId |-> NoId, stamped |-> FALSE, age |-> 0, playMode |-> 0,
     lastPlayDuration |-> 0]
Sessions ==
    {NoSession} \cup
    [lastSongId : {NoId} \cup Ids, stamped : BOOLEAN,
     age : {SESSION_MAX_AGE, SESSION_MAX_AGE + 1}, playMode : {0, 2},
     lastPlayDuration : {0, 1}]

\* an invocation of _processQueue inside its loop: suspended at the download
\* of `task` or at the pause between two tasks
Workers == 1..MaxWorkers
NoWorker == [pc |-> "none", task |-> NoId, no |-> 0]

CoverKeys ==
    LET
        \* cover keys `${id}_${size}`, and the calls of getSongCoverUrl
        CoverSizes == {96, 200}
    IN
        {[id |-> i, size |-> z] : i \in 1..MaxCoverIds, z \in CoverSizes}
CoverCalls == 1..MaxCoverCalls
NoCall == [key |-> [id |-> 0, size |-> 0], job |-> 0, result |-> "none"]
\* indexed: the key was recorded in the index file when the job was created
NoJob == [pc |-> "none", key |-> [id |-> 0, size |-> 0], indexed |-> FALSE, lookups |-> 0,
          downloads |-> 0, placements |-> 0, result |-> "none"]

\* nothing looked up yet
NoProbe ==
    [item |-> 0, id |-> NoId, play |-> "none", restore |-> "none",
     download |-> "none"]

\* initialize() calls are numbered in the order they are issued
InitCalls == 1..MaxInitCalls

VARIABLES
    \* playerState
    isPlaying, currSong, playMode, isFmMode, playDuration,
    \* initialize: the flag, the call whose callback table is installed (0
    \* before the first call), the read each call awaits, the ids with a
    \* download record in memory
    isInitialized, callbacks, initCalls, downloadedSongs,
    \* files: play_list.json, player_state.json, and how often initialize has
    \* read downloaded_songs.json, play_list.json and player_state.json
    fileList, session, loads,
    \* queue data
    playList, shuffledPlayList, currentIndex, shuffledIndex, fmQueue,
    \* control state
    isChangingSong, isFetchingFm, retryCount, playTimeoutId,
    \* event loop: armed playback timeouts, scheduled retries, awaited requests
    timers, retryTimers, inflight, playWrite,
    \* the play() calls awaiting the write, oldest first: the id each has
    \* inserted and whether no change was outstanding when it was accepted
    playCalls,
    \* audio device
    src, devPending, devPlaying,
    \* catalog: what a personal-FM request is answered with
    fmAnswer,
    \* observation of the last handler: its name, the request it completed,
    \* the effects it emitted in order, the last songChange seen by the UI
    op, opReq, out, lastSongChange,
    \* history: failures handled in a row with no onplay in between, whether
    \* each of them was the first end of a different attempt, and the play
    \* attempt accepted last (its number, and the attempt whose timeout
    \* scheduled the retry that started it, 0 when none did)
    streak, clean, latest,
    \* download manager: queue (the task being downloaded stays at its head),
    \* isProcessing, currentTask (an id, NoId for null), and the invocations
    \* of _processQueue that are inside the loop: where each is suspended and
    \* the task it holds
    dlQueue, isProcessing, currentTask, dlWorkers,
    \* history: the ids admitted and the ids started, each in order; the
    \* admitted tasks (by their number in `admitted`) whose onFinish has been
    \* invoked, and those clearQueue has removed before they were started
    admitted, started, finished, cleared,
    \* a track of the queue, an id to look up, and what each lookup found
    probe,
    \* one download task of one track: the flow that runs it ("queue" for
    \* _downloadSong under _processQueue, "start" for the stand-alone start),
    \* and where it stands
    flow,
    \* "idle", "fetching", "placing", "succeeded" or "failed"
    flowPc,
    \* what the three lookups gave: "url" or "missing"; "data" or "null";
    \* "local", "remote" or "" (no cover lookup in the queue flow)
    songPlaybackInfo,
    \* see songPlaybackInfo
    lyricData,
    \* see songPlaybackInfo
    coverUrl,
    \* the audio placement and the lyric write: "none", "pending",
    \* "fulfilled" or "rejected"
    songResult,
    \* see songResult
    lyricResult,
    \* the file.delete requests issued and not yet carried out
    deletes,
    \* the files of the track on the persistent store
    store,
    \* the record handed to onSuccess
    downloadedInfo,
    \* the display is asked to stay on (brightness.setKeepScreenOn)
    keepScreenOn,
    \* the cover service: the keys recorded in cached_cover.json, _coverIndex,
    \* _coverIndexLoaded, whether the read of the index file is under way,
    \* _picUrlCache (the ids it holds) and _coverInflight (key to job, 0 for none)
    coverIndexFile,
    \* see coverIndexFile
    coverIndex,
    \* see coverIndexFile
    coverIndexLoaded,
    \* see coverIndexFile
    indexRead,
    \* see coverIndexFile
    picUrlCache,
    \* see coverIndexFile
    coverInflight,
    \* the calls of getSongCoverUrl (key, job awaited, result) and the jobs, each
    \* named after the call that created it: where it is suspended, and how
    \* many lookups, downloads and placements it has issued
    coverCalls,
    \* see coverCalls
    coverJobs,
    \* a lyric text to parse as it was composed (lines of tags and text
    \* pieces), the string handed to parseLyric (its characters), and the
    \* list parseLyric returned (<<>> before the call)
    lyricIn,
    \* see lyricIn
    lrcString,
    \* see lyricIn
    lyricOut,
    \* the lyric normaliser: what cook and the fallback constructor are called
    \* with (the copy of lyric_cook.js in use, the track id, the fallback message,
    \* the payload's flags and its three channels as they were composed), the
    \* object they returned (v = 0 before any call), the object handed to
    \* isCooked and its verdict
    cookIn,
    \* see cookIn
    cooked,
    \* see cookIn
    cookProbe,
    \* see cookIn
    isCookedOut,
    \* the loading notification the UI has received last (false before any)
    loading,
    \* for each admitted task (by its number in `admitted`) the callback of the
    \* task that raises an exception when it is invoked, "none" when its
    \* callbacks return normally
    taskRaises,
    \* settingsService._settings as a JavaScript value (null until load)
    settings,
    \* the path of the last toggle and _settings as it was before it
    toggled

vars == <<isPlaying, currSong, playMode, isFmMode, playDuration, isInitialized,
          callbacks, initCalls, downloadedSongs, fileList, session, loads,
          playList, shuffledPlayList,
          currentIndex, shuffledIndex, fmQueue, isChangingSong, isFetchingFm,
          retryCount, playTimeoutId, timers, retryTimers, inflight, playWrite,
          playCalls,
          src, devPending, devPlaying, fmAnswer, op, opReq, out,
          lastSongChange, streak, clean, latest, dlQueue, isProcessing,
          currentTask, dlWorkers, admitted, started, finished, cleared,
          probe,
          flow, flowPc, songPlaybackInfo, lyricData, coverUrl, songResult, lyricResult, deletes, store, downloadedInfo,
          keepScreenOn,
          coverIndexFile, coverIndex, coverIndexLoaded, indexRead, picUrlCache, coverInflight, coverCalls, coverJobs,
          lyricIn, lrcString, lyricOut,
          cookIn, cooked, cookProbe, isCookedOut,
          loading,
          taskRaises,
          settings, toggled>>

\* the state as one record, and the assignment of a record to the next state
S ==
    [isPlaying |-> isPlaying, currSong |-> currSong, playMode |-> playMode,
     isFmMode |-> isFmMode, playDuration |-> playDuration,
     isInitialized |-> isInitialized, callbacks |-> callbacks,
     initCalls |-> initCalls, downloadedSongs |-> downloadedSongs,
     fileList |-> fileList, session |-> session, loads |-> loads,
     playList |-> playList,
     shuffledPlayList |-> shuffledPlayList, currentIndex |-> currentIndex,
     shuffledIndex |-> shuffledIndex, fmQueue |-> fmQueue,
     isChangingSong |-> isChangingSong, isFetchingFm |-> isFetchingFm,
     retryCount |-> retryCount, playTimeoutId |-> playTimeoutId,
     timers |-> timers, retryTimers |-> retryTimers, inflight |-> inflight,
     playWrite |-> playWrite, playCalls |-> playCalls, src |-> src, devPending |-> devPending,
     devPlaying |-> devPlaying, fmAnswer |-> fmAnswer, op |-> op,
     opReq |-> opReq, out |-> out, lastSongChange |-> lastSongChange,
     streak |-> streak, clean |-> clean, latest |-> latest,
     dlQueue |-> dlQueue, isProcessing |-> isProcessing,
     currentTask |-> currentTask, dlWorkers |-> dlWorkers,
     admitted |-> admitted, started |-> started, finished |-> finished,
     cleared |-> cleared, probe |-> probe,
     flow |-> flow,
     flowPc |-> flowPc,
     songPlaybackInfo |-> songPlaybackInfo,
     lyricData |-> lyricData,
     coverUrl |-> coverUrl,
     songResult |-> songResult,
     lyricResult |-> lyricResult,
     deletes |-> deletes,
     store |-> store,
     downloadedInfo |-> downloadedInfo,
     keepScreenOn |-> keepScreenOn,
     coverIndexFile |-> coverIndexFile,
     coverIndex |-> coverIndex,
     coverIndexLoaded |-> coverIndexLoaded,
     indexRead |-> indexRead,
     picUrlCache |-> picUrlCache,
     coverInflight |-> coverInflight,
     coverCalls |-> coverCalls,
     coverJobs |-> coverJobs,
     lyricIn |-> lyricIn,
     lrcString |-> lrcString,
     lyricOut |-> lyricOut,
     cookIn |-> cookIn,
     cooked |-> cooked,
     cookProbe |-> cookProbe,
     isCookedOut |-> isCookedOut,
     loading |-> loading,
     taskRaises |-> taskRaises,
     settings |-> settings,
     toggled |-> toggled]

Becomes(s) ==
    /\ isPlaying' = s.isPlaying
    /\ currSong' = s.currSong
    /\ playMode' = s.playMode
    /\ isFmMode' = s.isFmMode
    /\ playDuration' = s.playDuration
    /\ isInitialized' = s.isInitialized
    /\ callbacks' = s.callbacks
    /\ initCalls' = s.initCalls
    /\ downloadedSongs' = s.downloadedSongs
    /\ fileList' = s.fileList
    /\ session' = s.session
    /\ loads' = s.loads
    /\ playList' = s.playList
    /\ shuffledPlayList' = s.shuffledPlayList
    /\ currentIndex' = s.currentIndex
    /\ shuffledIndex' = s.shuffledIndex
    /\ fmQueue' = s.fmQueue
    /\ isChangingSong' = s.isChangingSong
    /\ isFetchingFm' = s.isFetchingFm
    /\ retryCount' = s.retryCount
    /\ playTimeoutId' = s.playTimeoutId
    /\ timers' = s.timers
    /\ retryTimers' = s.retryTimers
    /\ inflight' = s.inflight
    /\ playWrite' = s.playWrite
    /\ playCalls' = s.playCalls
    /\ src' = s.src
    /\ devPending' = s.devPending
    /\ devPlaying' = s.devPlaying
    /\ fmAnswer' = s.fmAnswer
    /\ op' = s.op
    /\ opReq' = s.opReq
    /\ out' = s.out
    /\ lastSongChange' = s.lastSongChange
    /\ streak' = s.streak
    /\ clean' = s.clean
    /\ latest' = s.latest
    /\ dlQueue' = s.dlQueue
    /\ isProcessing' = s.isProcessing
    /\ currentTask' = s.currentTask
    /\ dlWorkers' = s.dlWorkers
    /\ admitted' = s.admitted
    /\ started' = s.started
    /\ finished' = s.finished
    /\ cleared' = s.cleared
    /\ probe' = s.probe
    /\ flow' = s.flow
    /\ flowPc' = s.flowPc
    /\ songPlaybackInfo' = s.songPlaybackInfo
    /\ lyricData' = s.lyricData
    /\ coverUrl' = s.coverUrl
    /\ songResult' = s.songResult
    /\ lyricResult' = s.lyricResult
    /\ deletes' = s.deletes
    /\ store' = s.store
    /\ downloadedInfo' = s.downloadedInfo
    /\ keepScreenOn' = s.keepScreenOn
    /\ coverIndexFile' = s.coverIndexFile
    /\ coverIndex' = s.coverIndex
    /\ coverIndexLoaded' = s.coverIndexLoaded
    /\ indexRead' = s.indexRead
    /\ picUrlCache' = s.picUrlCache
    /\ coverInflight' = s.coverInflight
    /\ coverCalls' = s.coverCalls
    /\ coverJobs' = s.coverJobs
    /\ lyricIn' = s.lyricIn
    /\ lrcString' = s.lrcString
    /\ lyricOut' = s.lyricOut
    /\ cookIn' = s.cookIn
    /\ cooked' = s.cooked
    /\ cookProbe' = s.cookProbe
    /\ isCookedOut' = s.isCookedOut
    /\ loading' = s.loading
    /\ taskRaises' = s.taskRaises
    /\ settings' = s.settings
    /\ toggled' = s.toggled

\* a handler starts with an empty effect list
Enter(s, name, req) == [s EXCEPT !.op = name, !.opReq = req, !.out = <<>>]

ReqInfo(k) ==
    [slot |-> k, stage |-> inflight[k].stage, song |-> inflight[k].song,
     marks |-> inflight[k].marks, byRetry |-> latest.from = k, arg |-> 0]

\* every attempt still awaiting a request gets the mark m
MarkAll(s, m) ==
    [s EXCEPT !.inflight =
        [k \in Slots |-> IF @[k].stage = "none" THEN @[k]
                         ELSE [@[k] EXCEPT !.marks = @ \cup {m}]]]

Eff(e, a) == [e |-> e, a |-> a]

\* ----------------------------------------------------------------- helpers
\* JavaScript % : the result has the sign of the dividend
JsMod(a, b) == IF a >= 0 THEN a % b ELSE 0 - ((0 - a) % b)

\* playList[i] with a 0-based index; undefined (0) outside the list
ListAt(list, i) == IF i >= 0 /\ i < Len(list) THEN list[i + 1] ELSE 0

\* findIndex(item => String(item.id) === String(songId)); -1 when absent
\* the queue holds its ids as numbers
FindIndex(list, id) ==
    LET hit(k) == JsString(Num(list[k])) = JsString(id)
    IN  IF \E k \in 1..Len(list) : hit(k)
        THEN (CHOOSE k \in 1..Len(list) :
                  hit(k) /\ \A j \in 1..(k - 1) : ~hit(j)) - 1
        ELSE -1

\* _notifyUI(type, data)
\* _notifyUI(type, data); the callback table is empty before initialize
NotifyUI(s, type, data) ==
    LET t == [s EXCEPT !.out = Append(@, Eff(type, data))]
    IN  IF s.callbacks = 0
        THEN s
        ELSE IF type = "songChange" THEN [t EXCEPT !.lastSongChange = data]
             ELSE IF type = "loading" THEN [t EXCEPT !.loading = (data = 1)]
             ELSE t

\* ------------------------------------------------------------ audio device
\* A command supersedes the pending commands that were to take effect after
\* it, so pending events are always delivered in the order stop, pause, play.
AudioStop(s) ==
    [s EXCEPT !.devPending = {"stop"}, !.out = Append(@, Eff("stop", 0))]

AudioPlay(s) ==
    [s EXCEPT !.devPending = @ \cup {"play"}, !.out = Append(@, Eff("play", 0))]

AudioSetSrc(s, url) ==
    [s EXCEPT !.src = url, !.out = Append(@, Eff("src", url))]

ClearPlaybackTimeout(s) ==
    IF s.playTimeoutId # 0
    THEN [s EXCEPT !.timers = {t \in @ : t.id # s.playTimeoutId},
                   !.playTimeoutId = 0]
    ELSE s

\* ------------------------------------------------------ reset / error path
ResetPlayer(s) ==
    LET a == AudioStop(MarkAll(s, "ended"))
        b == [a EXCEPT !.currSong = 0, !.isPlaying = FALSE,
                       !.playDuration = 0,
                       !.isChangingSong = FALSE, !.retryCount = 0]
    IN  NotifyUI(NotifyUI(b, "stateChange", 0), "songChange", 0)

\* the backoff computed from the counter as it was before the increment
RetryDelayBeforeIncrement(n) == RETRY_BASE_DELAY + (n - 1) * RETRY_STEP_DELAY

RetryDelay(n) == RETRY_BASE_DELAY + n * RETRY_STEP_DELAY

\* _handlePlaybackError; `from` is the attempt whose timeout called it (0 for
\* another caller), `fresh` tells that an attempt ends here for the first time
HandlePlaybackError(s, from, fresh) ==
    LET a == ClearPlaybackTimeout(MarkAll(s, "ended"))
        b == NotifyUI([a EXCEPT !.isChangingSong = FALSE], "loading", 0)
        c == [b EXCEPT !.retryCount = @ + 1,
                       !.streak = IF b.retryCount = 0 THEN 1 ELSE @ + 1,
                       !.clean = IF b.retryCount = 0 THEN fresh ELSE @ /\ fresh,
                       !.out = Append(@, Eff("toast", b.retryCount + 1))]
        r == [delay |-> RetryDelay(c.retryCount), from |-> from]
    IN  IF c.retryCount >= MAX_PLAYBACK_RETRIES
        THEN ResetPlayer([c EXCEPT !.out = Append(@, Eff("toast", 0))])
        ELSE [c EXCEPT !.retryTimers = @ (+) SetToBag({r}),
                       !.out = Append(@, Eff("setTimeout", r.delay))]

\* the error handler can run without exceeding the bound on pending retries
RetryRoom ==
    \/ retryCount + 1 >= MAX_PLAYBACK_RETRIES
    \/ BagCardinality(retryTimers) < MaxRetryTimers

FreeSlot(s) == s.latest.slot + 1

\* a request is awaited in slot k; the event loop runs other handlers meanwhile
Await(s, k, stage, song) ==
    [s EXCEPT !.inflight[k] = [@ EXCEPT !.stage = stage, !.song = song],
              !.out = Append(@, Eff(stage, song))]

Release(s, k) == [s EXCEPT !.inflight[k] = NoReq]

\* lines 273-291: the track is resolved; arm the timeout, look for a source
Prepare(s, k, song) ==
    LET
        StartPlaybackTimeout(slot) ==
            LET
                \* --------------------------------------------------------- playback timeout
                FreshTimerId(ts) ==
                    CHOOSE i \in 1..(Cardinality(ts) + 1) : \A t \in ts : t.id # i
            IN
                LET c == ClearPlaybackTimeout(s)
                    id == FreshTimerId(c.timers)
                IN  [c EXCEPT !.timers = @ \cup {[id |-> id, slot |-> slot, ms |-> PLAY_TIMEOUT]},
                              !.playTimeoutId = id]
    IN
        IF song = 0
        THEN HandlePlaybackError(Release(s, k), 0, TRUE)
        ELSE LET t == StartPlaybackTimeout( k)
             IN  IF song \in s.downloadedSongs
                 THEN Await(t, k, "exists", song)
                 ELSE Await(t, k, "url", song)

\* the source handed to the device before the track is published
BindBeforeNotify(s, k, song) ==
    LET m == IF s.latest.slot = k THEN MarkAll(s, "overtaken") ELSE s
        a == AudioSetSrc(AudioStop([Release(m, k) EXCEPT !.currSong = song]), song)
        b == NotifyUI(NotifyUI(a, "songChange", song), "lyricChange", song)
    IN  AudioPlay(b)

\* lines 293-305: publish the track, then hand the source to the device
BindAndPlay(s, k, song) ==
    LET m == IF s.latest.slot = k THEN MarkAll(s, "overtaken") ELSE s
        a == [Release(m, k) EXCEPT !.currSong = song]
        b == NotifyUI(NotifyUI(a, "songChange", song), "lyricChange", song)
    IN  AudioPlay(AudioSetSrc(AudioStop(b), song))

\* _fetchNextFmSongs up to its await: nothing happens when a fetch is already
\* in progress, otherwise the batch request is issued and awaited in slot k
\* (stage names the continuation that runs after the fetch)
FetchNextFmSongs(s, k, stage) ==
    IF s.isFetchingFm
    THEN s
    ELSE Await([s EXCEPT !.isFetchingFm = TRUE], k, stage, 0)

\* lines 258-271: the part of _playCurrent that runs in the caller's task
PlayCurrent(s) ==
    IF s.isChangingSong
    THEN s
    ELSE LET k == FreeSlot(s)
             a == NotifyUI([s EXCEPT !.isChangingSong = TRUE,
                                     !.latest = [slot |-> k,
                                                 from |-> IF s.op = "retry"
                                                          THEN s.opReq.slot
                                                          ELSE 0]],
                           "loading", 1)
         IN  IF a.isFmMode
             THEN IF a.fmQueue = <<>>
                  THEN LET f == FetchNextFmSongs(a, k, "fm")
                       IN  IF f.inflight[k].stage = "fm"
                           THEN f
                           ELSE ResetPlayer(f)
                  ELSE Prepare([a EXCEPT !.fmQueue = Tail(@)], k, Head(a.fmQueue))
             ELSE IF a.playList = <<>>
                  THEN ResetPlayer(a)
                  ELSE Prepare(a, k, ListAt(a.playList, a.currentIndex))

\* ------------------------------------------------------------------ shuffle
\* [...Array(n).keys()]
Keys(n) == [k \in 1..n |-> k - 1]

\* an exchange that copies one cell over the other
SwapOverwrites(list, i, j) == [list EXCEPT ![i + 1] = list[j + 1]]

\* [list[i], list[j]] = [list[j], list[i]] with 0-based i and j
Swap(list, i, j) ==
    [list EXCEPT ![i + 1] = list[j + 1], ![j + 1] = list[i + 1]]

\* the loop of _generateShuffledList from index i downwards
RECURSIVE FisherYates(_, _, _)
FisherYates(list, i, draw) ==
    IF i <= 0 THEN list
    ELSE FisherYates(Swap(list, i, draw[i]), i - 1, draw)

\* the lists _generateShuffledList can produce for a queue of n tracks
Perms(n) ==
    LET
        \* the values Math.floor(Math.random() * (i + 1)) can take for i = n-1 .. 1
        Draws == {d \in [1..(n - 1) -> 0..(n - 1)] : \A i \in 1..(n - 1) : d[i] <= i}
    IN
        {FisherYates(Keys(n), n - 1, d) : d \in Draws}

\* perm is the outcome of the Fisher-Yates draws
GenerateShuffledList(s, locateCurrent, perm) ==
    LET
        IndexOf(list, v) ==
            IF \E k \in 1..Len(list) : list[k] = v
            THEN (CHOOSE k \in 1..Len(list) :
                      list[k] = v /\ \A j \in 1..(k - 1) : list[j] # v) - 1
            ELSE -1
    IN
        LET a == [s EXCEPT !.shuffledPlayList = perm]
            i == IndexOf(perm, s.currentIndex)
        IN  IF locateCurrent
            THEN [a EXCEPT !.shuffledIndex = IF i # -1 THEN i ELSE 0]
            ELSE a

\* ----------------------------------------------------------- public methods
\* a play that starts the track at the head whatever it was called with
PlayStartsAnyway(s, id, hasInfo) == PlayCurrent([s EXCEPT !.currentIndex = 0])

\* play(songId, songInfo) up to its first suspension
PlayMethod(s, id, hasInfo) ==
    IF id = 0
    THEN IF s.playList # <<>>
         THEN PlayCurrent([s EXCEPT !.currentIndex = 0])
         ELSE [s EXCEPT !.out = Append(@, Eff("toast", 0))]
    ELSE LET index == FindIndex(s.playList, Num(id))
         IN  IF index # -1
             THEN PlayCurrent([s EXCEPT !.currentIndex = index])
             ELSE IF hasInfo
                  THEN [s EXCEPT !.playList = <<id>> \o @,
                                 !.playWrite = @ + 1,
                                 !.playCalls =
                                     Append(@, [id |-> id,
                                                free |-> ~s.isChangingSong]),
                                 !.out = Append(@, Eff("writeJson", id))]
                  ELSE [s EXCEPT !.out = Append(@, Eff("toast", 0))]

\* a change that never regenerates the shuffle list
ChangeKeepsShuffledList(s, direction, perm) ==
    IF s.isChangingSong
    THEN [s EXCEPT !.out = Append(@, Eff("toast", 0))]
    ELSE IF s.isFmMode
         THEN IF direction < 0
              THEN [s EXCEPT !.out = Append(@, Eff("toast", 0))]
              ELSE PlayCurrent(s)
         ELSE IF s.playList = <<>>
              THEN s
              ELSE LET n == Len(s.playList)
                   IN  IF s.playMode = 2
                       THEN LET si == JsMod(s.shuffledIndex + direction + n, n)
                            IN  PlayCurrent([s EXCEPT
                                    !.shuffledIndex = si,
                                    !.currentIndex = ListAt(s.shuffledPlayList, si)])
                       ELSE PlayCurrent([s EXCEPT !.currentIndex =
                                JsMod(s.currentIndex + direction + n, n)])

\* change(direction); perm is the permutation drawn if one is generated
ChangeMethod(s, direction, perm) ==
    IF s.isChangingSong
    THEN [s EXCEPT !.out = Append(@, Eff("toast", 0))]
    ELSE IF s.isFmMode
         THEN IF direction < 0
              THEN [s EXCEPT !.out = Append(@, Eff("toast", 0))]
              ELSE PlayCurrent(s)
         ELSE IF s.playList = <<>>
              THEN s
              ELSE LET n == Len(s.playList)
                   IN  IF s.playMode = 2
                       THEN LET g == IF Len(s.shuffledPlayList) # n
                                     THEN GenerateShuffledList(s, FALSE, perm)
                                     ELSE s
                                m == Len(g.shuffledPlayList)
                                si == JsMod(g.shuffledIndex + direction + m, m)
                            IN  PlayCurrent([g EXCEPT
                                    !.shuffledIndex = si,
                                    !.currentIndex = ListAt(g.shuffledPlayList, si)])
                       ELSE PlayCurrent([s EXCEPT !.currentIndex =
                                JsMod(s.currentIndex + direction + n, n)])

\* a changeMode that advances the mode in private FM as well
ChangeModeIgnoresFm(s, perm) ==
    LET a == [s EXCEPT !.playMode = (@ + 1) % MODE_COUNT,
                       !.out = Append(@, Eff("toast", 0))]
        b == IF a.playMode = 2 /\ a.playList # <<>>
             THEN GenerateShuffledList(a, TRUE, perm)
             ELSE a
    IN  NotifyUI(b, "stateChange", 0)

\* changeMode()
ChangeModeMethod(s, perm) ==
    IF s.isFmMode
    THEN s
    ELSE LET a == [s EXCEPT !.playMode = (@ + 1) % MODE_COUNT,
                            !.out = Append(@, Eff("toast", 0))]
             b == IF a.playMode = 2 /\ a.playList # <<>>
                  THEN GenerateShuffledList(a, TRUE, perm)
                  ELSE a
         IN  NotifyUI(b, "stateChange", 0)

\* startFmMode after its await of _fetchNextFmSongs (lines 236-248)
StartFmModeRest(s) ==
    LET d == IF s.fmQueue # <<>>
             THEN PlayCurrent(s)
             ELSE [s EXCEPT !.out = Append(@, Eff("toast", 0)),
                            !.isFmMode = FALSE]
    IN  NotifyUI([d EXCEPT !.isFetchingFm = FALSE], "stateChange", 0)

\* ----------------------------------------------------------- device events
\* an onplay handler that leaves the playback timeout armed
OnPlayKeepsTimeout(s) ==
    LET a == [s EXCEPT !.isChangingSong = FALSE, !.isPlaying = TRUE,
                       !.streak = 0, !.clean = TRUE]
    IN  NotifyUI(NotifyUI(a, "stateChange", 0), "loading", 0)

\* audio.onplay (lines 316-322)
OnPlayHandler(s) ==
    LET a == [ClearPlaybackTimeout(s) EXCEPT !.isChangingSong = FALSE,
                                             !.isPlaying = TRUE, !.streak = 0,
                                             !.clean = TRUE]
    IN  NotifyUI(NotifyUI(a, "stateChange", 0), "loading", 0)

\* --------------------------------------------------------- download manager
\* addTask's test: currentTask?.id === song.id || queue.some(t => t.id === song.id)
HasTask(s, id) ==
    \/ s.currentTask # NoId /\ StrictEquals(s.currentTask, id)
    \/ \E k \in 1..Len(s.dlQueue) : StrictEquals(s.dlQueue[k].id, id)

FreeWorker(s) == CHOOSE w \in Workers : s.dlWorkers[w].pc = "none"

\* one pass of the while loop of _processQueue up to its await: the test,
\* then either the head of the queue is started or the loop is left
\* screenKeep.enable() and screenKeep.disable(): the request to the display,
\* which never throws
ScreenKeepEnable(s) ==
    [s EXCEPT !.keepScreenOn = TRUE, !.out = Append(@, Eff("screenKeep", 1))]

\* a worker loop that leaves the display as it is when the queue has drained
ProcessLoopStaysAwake(s, w) ==
    IF s.dlQueue # <<>>
    THEN LET task == Head(s.dlQueue)
         IN  [s EXCEPT !.currentTask = task.id,
                       !.dlQueue[1].status = "downloading",
                       !.dlWorkers[w] = [pc |-> "downloading", task |-> task.id,
                                         no |-> task.no],
                       !.started = Append(@, task.id),
                       !.out = Append(@, Eff("onStart", task.id.n))]
    ELSE [s EXCEPT !.isProcessing = FALSE, !.dlWorkers[w] = NoWorker]

\* an exception raised by onStart (called outside the try block) ends the
\* invocation there
ProcessLoop(s, w) ==
    LET
        ScreenKeepDisable(s_) ==
            [s_ EXCEPT !.keepScreenOn = FALSE, !.out = Append(@, Eff("screenKeep", 0))]
    IN
        IF s.dlQueue # <<>>
        THEN LET task == Head(s.dlQueue)
                 a == [s EXCEPT !.currentTask = task.id,
                                !.dlQueue[1].status = "downloading",
                                !.out = Append(@, Eff("onStart", task.id.n))]
             IN  IF s.taskRaises[task.no] = "onStart"
                 THEN [a EXCEPT !.dlWorkers[w] = NoWorker]
                 ELSE [a EXCEPT !.dlWorkers[w] = [pc |-> "downloading",
                                                  task |-> task.id, no |-> task.no],
                                !.started = Append(@, task.id)]
        ELSE ScreenKeepDisable([s EXCEPT !.isProcessing = FALSE,
                                         !.dlWorkers[w] = NoWorker])

\* a _processQueue that enters the loop whether or not one is running
ProcessQueueUnguarded(s) ==
    IF s.dlQueue = <<>>
    THEN s
    ELSE ProcessLoop(ScreenKeepEnable([s EXCEPT !.isProcessing = TRUE]),
                     FreeWorker(s))

\* _processQueue() up to its first suspension
ProcessQueue(s) ==
    IF s.isProcessing \/ s.dlQueue = <<>>
    THEN s
    ELSE ProcessLoop(ScreenKeepEnable([s EXCEPT !.isProcessing = TRUE]),
                     FreeWorker(s))

\* --------------------------------------------------------------- initialize
\* findIndex(song => song && song.id === savedState.lastSongId)
FindLastSong(list, id) ==
    LET hit(k) == StrictEquals(Num(list[k]), id)
    IN  IF \E k \in 1..Len(list) : hit(k)
        THEN (CHOOSE k \in 1..Len(list) :
                  hit(k) /\ \A j \in 1..(k - 1) : ~hit(j)) - 1
        ELSE -1

\* _restoreState once player_state.json has been read
RestoreState(s, saved) ==
    LET
        \* Date.now() - timestamp > 12 h; a record with no timestamp counts as expired
        IsStateExpired ==
            IF saved.stamped THEN saved.age > SESSION_MAX_AGE ELSE TRUE
    IN
        LET lastIndex == FindLastSong(s.playList, saved.lastSongId)
            song == ListAt(s.playList, lastIndex)
        IN  IF saved.lastSongId # NoId /\ ~IsStateExpired /\ lastIndex > -1
            THEN LET a == [s EXCEPT !.currentIndex = lastIndex,
                                    !.playMode = saved.playMode,
                                    !.currSong = song,
                                    !.playDuration = saved.lastPlayDuration]
                     b == NotifyUI(NotifyUI(NotifyUI(a, "stateChange", 0),
                                            "songChange", song),
                                   "lyricChange", song)
                 IN  [b EXCEPT !.out = Append(@, Eff("toast", 0))]
            ELSE s

\* -------------------------------------------------------------------- Init
\* the state once initialize has loaded the queue `list` and found no session
\* to restore; `answer` is what the catalog's personal-FM service answers
Loaded(list, answer) ==
    LET
        \* no record yet: localLyricUri and coverUrl of the record, as present or null
        NoInfo == [made |-> FALSE, localLyricUri |-> FALSE, coverUrl |-> FALSE]
    IN
        [isPlaying |-> FALSE,
         currSong |-> 0,
         playMode |-> 0,
         isFmMode |-> FALSE,
         playDuration |-> 0,
         isInitialized |-> TRUE,
         callbacks |-> 1,
         initCalls |-> [c \in InitCalls |-> "none"],
         downloadedSongs |-> DownloadedIds,
         fileList |-> list,
         session |-> NoSession,
         loads |-> [downloaded |-> 1, list |-> 1, session |-> 1],
         playList |-> list,
         shuffledPlayList |-> <<>>,
         currentIndex |-> -1,
         shuffledIndex |-> -1,
         fmQueue |-> <<>>,
         isChangingSong |-> FALSE,
         isFetchingFm |-> FALSE,
         retryCount |-> 0,
         playTimeoutId |-> 0,
         timers |-> {},
         retryTimers |-> EmptyBag,
         inflight |-> [k \in Slots |-> NoReq],
         playWrite |-> 0,
         playCalls |-> <<>>,
         src |-> 0,
         devPending |-> {},
         devPlaying |-> FALSE,
         fmAnswer |-> answer,
         op |-> "init",
         opReq |-> NoOp,
         out |-> <<>>,
         lastSongChange |-> 0,
         streak |-> 0,
         clean |-> TRUE,
         latest |-> [slot |-> 0, from |-> 0],
         dlQueue |-> <<>>,
         isProcessing |-> FALSE,
         currentTask |-> NoId,
         dlWorkers |-> [w \in Workers |-> NoWorker],
         admitted |-> <<>>,
         started |-> <<>>,
         finished |-> {},
         cleared |-> {},
         probe |-> NoProbe,
         flow |-> "none",
         flowPc |-> "idle",
         songPlaybackInfo |-> "none",
         lyricData |-> "none",
         coverUrl |-> "none",
         songResult |-> "none",
         lyricResult |-> "none",
         deletes |-> {},
         store |-> {},
         downloadedInfo |-> NoInfo,
         keepScreenOn |-> FALSE,
         coverIndexFile |-> {},
         coverIndex |-> {},
         coverIndexLoaded |-> FALSE,
         indexRead |-> FALSE,
         picUrlCache |-> {},
         coverInflight |-> [k \in CoverKeys |-> 0],
         coverCalls |-> [c \in CoverCalls |-> NoCall],
         coverJobs |-> [c \in CoverCalls |-> NoJob],
         lyricIn |-> <<>>,
         lrcString |-> <<>>,
         lyricOut |-> <<>>,
     cookIn |-> [version |-> "", songId |-> NoId, message |-> <<>>, nolyric |-> FALSE,
                 uncollected |-> FALSE,
                 lrc |-> [has |-> FALSE, lines |-> <<>>],
                 tlyric |-> [has |-> FALSE, lines |-> <<>>],
                 romalrc |-> [has |-> FALSE, lines |-> <<>>]],
     cooked |-> [v |-> 0, songId |-> NoId, type |-> "", lines |-> <<>>],
     cookProbe |-> [from |-> "", isObject |-> FALSE, v |-> NoId,
                    lines |-> [is |-> "absent", items |-> <<>>]],
     isCookedOut |-> FALSE,
     loading |-> FALSE,
     taskRaises |-> [k \in 1..MaxTasks |-> "none"],
     settings |-> NoId,
     toggled |-> [path |-> <<>>, was |-> NoId]]

\* the variables hold the state s
IsState(s) ==
    /\ isPlaying = s.isPlaying
    /\ currSong = s.currSong
    /\ playMode = s.playMode
    /\ isFmMode = s.isFmMode
    /\ playDuration = s.playDuration
    /\ isInitialized = s.isInitialized
    /\ callbacks = s.callbacks
    /\ initCalls = s.initCalls
    /\ downloadedSongs = s.downloadedSongs
    /\ fileList = s.fileList
    /\ session = s.session
    /\ loads = s.loads
    /\ playList = s.playList
    /\ shuffledPlayList = s.shuffledPlayList
    /\ currentIndex = s.currentIndex
    /\ shuffledIndex = s.shuffledIndex
    /\ fmQueue = s.fmQueue
    /\ isChangingSong = s.isChangingSong
    /\ isFetchingFm = s.isFetchingFm
    /\ retryCount = s.retryCount
    /\ playTimeoutId = s.playTimeoutId
    /\ timers = s.timers
    /\ retryTimers = s.retryTimers
    /\ inflight = s.inflight
    /\ playWrite = s.playWrite
    /\ playCalls = s.playCalls
    /\ src = s.src
    /\ devPending = s.devPending
    /\ devPlaying = s.devPlaying
    /\ fmAnswer = s.fmAnswer
    /\ op = s.op
    /\ opReq = s.opReq
    /\ out = s.out
    /\ lastSongChange = s.lastSongChange
    /\ streak = s.streak
    /\ clean = s.clean
    /\ latest = s.latest
    /\ dlQueue = s.dlQueue
    /\ isProcessing = s.isProcessing
    /\ currentTask = s.currentTask
    /\ dlWorkers = s.dlWorkers
    /\ admitted = s.admitted
    /\ started = s.started
    /\ finished = s.finished
    /\ cleared = s.cleared
    /\ probe = s.probe
    /\ flow = s.flow
    /\ flowPc = s.flowPc
    /\ songPlaybackInfo = s.songPlaybackInfo
    /\ lyricData = s.lyricData
    /\ coverUrl = s.coverUrl
    /\ songResult = s.songResult
    /\ lyricResult = s.lyricResult
    /\ deletes = s.deletes
    /\ store = s.store
    /\ downloadedInfo = s.downloadedInfo
    /\ keepScreenOn = s.keepScreenOn
    /\ coverIndexFile = s.coverIndexFile
    /\ coverIndex = s.coverIndex
    /\ coverIndexLoaded = s.coverIndexLoaded
    /\ indexRead = s.indexRead
    /\ picUrlCache = s.picUrlCache
    /\ coverInflight = s.coverInflight
    /\ coverCalls = s.coverCalls
    /\ coverJobs = s.coverJobs
    /\ lyricIn = s.lyricIn
    /\ lrcString = s.lrcString
    /\ lyricOut = s.lyricOut
    /\ cookIn = s.cookIn
    /\ cooked = s.cooked
    /\ cookProbe = s.cookProbe
    /\ isCookedOut = s.isCookedOut
    /\ loading = s.loading
    /\ taskRaises = s.taskRaises
    /\ settings = s.settings
    /\ toggled = s.toggled

InitWith(list, answer) == IsState(Loaded(list, answer))

\* the state once initialize has loaded the queue `list` and has gone through
\* the session record `saved`
InitRestored(list, saved, answer) ==
    IsState(RestoreState([Loaded(list, answer) EXCEPT !.session = saved], saved))

FullList == [i \in 1..(MaxTracks - 1) |-> i]

\* ----------------------------------------------------------------- actions
\* a handler that may start a play attempt needs a free request slot
StartRoom ==
    LET
        \* ------------------------------------------------------------ _playCurrent
        \* the slot of the next attempt; latest.slot counts the attempts accepted
        HasFreeSlot ==
            /\ latest.slot < MaxAttempts
            /\ inflight[latest.slot + 1].stage = "none"
    IN
        HasFreeSlot

\* the permutations a handler can draw: only when it regenerates the list
ChangePerms ==
    IF /\ ~isChangingSong
       /\ ~isFmMode
       /\ playList # <<>>
       /\ playMode = 2
       /\ Len(shuffledPlayList) # Len(playList)
    THEN Perms(Len(playList))
    ELSE {<<>>}

Play(id, hasInfo) ==
    /\ StartRoom
    /\ playWrite < MaxPlayWrites
    /\ Becomes(PlayMethod(Enter(S, "play", [NoOp EXCEPT !.arg = id]), id, hasInfo))

PlayWriteDone(ok) ==
    LET
        \* play after writeJson settles (lines 128, 135-136); a failed write throws
        PlayAfterWrite(s) ==
            LET a == [s EXCEPT !.playWrite = @ - 1, !.playCalls = Tail(@)]
            IN  IF ok
                THEN PlayCurrent([a EXCEPT !.currentIndex = 0,
                                           !.fileList = s.playList])
                ELSE a
    IN
        /\ playWrite > 0
        /\ StartRoom
        /\ LET call == Head(playCalls)
               req == [NoOp EXCEPT !.arg = call.id,
                                   !.stage = IF ok THEN "written" ELSE "writeFailed",
                                   !.marks = IF call.free THEN {"free"} ELSE {}]
           IN  Becomes(PlayAfterWrite(Enter(S, "playWriteDone", req)))

PlayOrPause ==
    LET
        PlayOrPauseMethod(s) ==
            LET
                AudioPause ==
                    [s EXCEPT !.devPending = (@ \ {"play"}) \cup {"pause"},
                              !.out = Append(@, Eff("pause", 0))]
            IN
                IF s.currSong = 0
                THEN PlayMethod(s, 0, FALSE)
                ELSE IF s.src = 0
                     THEN PlayCurrent(s)
                     ELSE IF s.isPlaying THEN AudioPause ELSE AudioPlay(s)
    IN
        /\ StartRoom
        /\ RetryRoom
        /\ Becomes(PlayOrPauseMethod(Enter(S, "playOrPause", NoOp)))

Change(direction) ==
    /\ StartRoom
    /\ \E perm \in ChangePerms :
         Becomes(ChangeMethod(Enter(S, "change", [NoOp EXCEPT !.arg = direction]),
                              direction, perm))

ChangeMode ==
    LET
        ChangeModePerms ==
            IF ~isFmMode /\ (playMode + 1) % MODE_COUNT = 2 /\ playList # <<>>
            THEN Perms(Len(playList))
            ELSE {<<>>}
    IN
        \E perm \in ChangeModePerms :
            Becomes(ChangeModeMethod(Enter(S, "changeMode", NoOp), perm))

StartFmMode(seed) ==
    LET
        \* startFmMode (lines 221-235).  It sets _isFetchingFm before it calls
        \* _fetchNextFmSongs, so that call returns at once and the rest of the method
        \* runs in the same task.
        StartFmModeMethod(s) ==
            IF s.isFetchingFm
            THEN s
            ELSE LET k == FreeSlot(s)
                     a == AudioStop([MarkAll(s, "prior") EXCEPT
                                         !.isFmMode = TRUE, !.isFetchingFm = TRUE,
                                         !.playList = <<>>, !.fmQueue = <<>>])
                     b == [a EXCEPT !.out = Append(@, Eff("toast", 0)),
                                    !.fmQueue = IF seed # 0 THEN <<seed>> ELSE <<>>]
                     c == FetchNextFmSongs(b, k, "fmStart")
                 IN  IF c.inflight[k].stage = "fmStart"
                     THEN c
                     ELSE StartFmModeRest(c)
    IN
        /\ StartRoom
        /\ Becomes(StartFmModeMethod(Enter(S, "startFmMode", [NoOp EXCEPT !.arg = seed])))

\* the device answers the pending play command with onplay
OnPlay ==
    /\ devPending = {"play"}
    /\ Becomes(OnPlayHandler([Enter(S, "onplay", NoOp) EXCEPT
                                  !.devPending = {}, !.devPlaying = TRUE]))

OnPause ==
    LET
        \* audio.onpause and audio.onstop (lines 323-330)
        OnPauseHandler(s) == NotifyUI([s EXCEPT !.isPlaying = FALSE], "stateChange", 0)
    IN
        /\ "pause" \in devPending
        /\ "stop" \notin devPending
        /\ Becomes(OnPauseHandler([Enter(S, "onpause", NoOp) EXCEPT
                                       !.devPending = @ \ {"pause"},
                                       !.devPlaying = FALSE]))

OnStop ==
    LET
        OnStopHandler(s) == NotifyUI([s EXCEPT !.isPlaying = FALSE], "stateChange", 0)
    IN
        /\ "stop" \in devPending
        /\ Becomes(OnStopHandler([Enter(S, "onstop", NoOp) EXCEPT
                                      !.devPending = @ \ {"stop"},
                                      !.devPlaying = FALSE]))

\* the device fails the pending play command, or fails while it is playing
OnError ==
    LET
        \* audio.onerror (lines 331-333)
        OnErrorHandler(s) == HandlePlaybackError(s, 0, FALSE)
    IN
        /\ devPending = {"play"} \/ devPlaying
        /\ RetryRoom
        /\ Becomes(OnErrorHandler([Enter(S, "onerror", NoOp) EXCEPT
                                       !.devPending = @ \ {"play"},
                                       !.devPlaying = FALSE]))

OnEnded ==
    LET
        \* audio.onended (lines 340-347); seek(0) sets the device position only
        OnEndedHandler(s, perm_) ==
            IF s.playMode = 1
            THEN AudioPlay(s)
            ELSE ChangeMethod(s, 1, perm_)
    IN
        /\ devPlaying
        /\ StartRoom
        /\ \E perm \in ChangePerms :
             Becomes(OnEndedHandler([Enter(S, "onended", NoOp) EXCEPT
                                         !.devPlaying = FALSE], perm))

OnCtrlPlayPrev ==
    /\ StartRoom
    /\ \E perm \in ChangePerms :
         Becomes(ChangeMethod(Enter(S, "onctrlplayprev", [NoOp EXCEPT !.arg = -1]),
                              -1, perm))

OnCtrlPlayNext ==
    /\ StartRoom
    /\ \E perm \in ChangePerms :
         Becomes(ChangeMethod(Enter(S, "onctrlplaynext", [NoOp EXCEPT !.arg = 1]),
                              1, perm))

\* the playback timeout t expires
TimeoutFire(t) ==
    LET
        \* the callback armed by _startPlaybackTimeout (lines 475-477)
        TimeoutHandler(s, slot_, fresh_) == HandlePlaybackError(s, slot_, fresh_)
    IN
        /\ t \in timers
        /\ RetryRoom
        /\ LET fresh == /\ inflight[t.slot].stage \in {"exists", "url"}
                        /\ "ended" \notin inflight[t.slot].marks
               a == [Enter(S, "timeout", ReqInfo(t.slot)) EXCEPT !.timers = @ \ {t}]
           IN  Becomes(TimeoutHandler(a, t.slot, fresh))

\* a scheduled retry expires: setTimeout(() => this.change(1), delay)
RetryFire(r) ==
    /\ BagIn(r, retryTimers)
    /\ StartRoom
    /\ \E perm \in ChangePerms :
         Becomes(ChangeMethod([Enter(S, "retry", [NoOp EXCEPT !.slot = r.from,
                                                             !.arg = 1])
                                   EXCEPT !.retryTimers = @ (-) SetToBag({r})],
                              1, perm))

\* the catalog answers the personal-FM request awaited in slot k
FmFetchDone(k) ==
    LET
        \* _playCurrent after its await of the FM refill (lines 266-267, then 273-)
        PlayCurrentAfterFm(s_) ==
            IF s_.fmQueue = <<>>
            THEN ResetPlayer(Release(s_, k))
            ELSE Prepare([s_ EXCEPT !.fmQueue = Tail(@)], k, Head(s_.fmQueue))
    IN
        LET
            \* ------------------------------------------------------------ continuations
            \* _fetchNextFmSongs after its await (lines 457-467)
            FetchNextFmSongsDone(s, answer) ==
                LET a == IF answer.kind = "ok" /\ answer.batch # <<>>
                         THEN [s EXCEPT !.fmQueue = @ \o answer.batch]
                         ELSE [s EXCEPT !.out = Append(@, Eff("toast", 0))]
                IN  [a EXCEPT !.isFetchingFm = FALSE]
        IN
            /\ inflight[k].stage \in {"fm", "fmStart"}
            /\ LET a == FetchNextFmSongsDone(Enter(S, "fmFetchDone", ReqInfo(k)), fmAnswer)
               IN  IF inflight[k].stage = "fm"
                   THEN Becomes(PlayCurrentAfterFm(a))
                   ELSE Becomes(StartFmModeRest(Release(a, k)))

ExistsDone(k, exists) ==
    LET
        \* _playCurrent after file.exists settles (lines 282-291)
        PlayCurrentAfterExists(s) ==
            IF exists
            THEN BindAndPlay(s, k, s.inflight[k].song)
            ELSE Await(s, k, "url", s.inflight[k].song)
    IN
        /\ inflight[k].stage = "exists"
        /\ Becomes(PlayCurrentAfterExists(Enter(S, "existsDone", ReqInfo(k))))

UrlDone(k, ok) ==
    LET
        \* _playCurrent after getSongPlaybackInfo settles (lines 289-309)
        PlayCurrentAfterUrl(s) ==
            IF ok
            THEN BindAndPlay(s, k, s.inflight[k].song)
            ELSE HandlePlaybackError(Release(s, k), 0, "ended" \notin s.inflight[k].marks)
    IN
        /\ inflight[k].stage = "url"
        /\ ok \/ RetryRoom
        /\ Becomes(PlayCurrentAfterUrl(Enter(S, "urlDone", ReqInfo(k))))

\* List mode, Loop, on a queue of MaxTracks - 1 tracks: the UI's transport
\* controls, the hardware keys, the device, the timers and the awaited requests.
\* play is called without an id, with the id of a track of the queue, or with
\* an id the queue does not hold and no track to add (a play that extends the
\* queue is part of SpecQueue)
Spec ==
    /\ InitWith(FullList, [kind |-> "ok", batch |-> <<>>])
    /\ [][\/ \E id \in {0} \cup TrackIds : Play(id, FALSE)
          \/ PlayOrPause
          \/ OnCtrlPlayPrev
          \/ OnCtrlPlayNext
          \/ \E direction \in {-1, 1} : Change(direction)
          \/ OnPlay
          \/ OnPause
          \/ OnStop
          \/ OnError
          \/ OnEnded
          \/ \E t \in timers : TimeoutFire(t)
          \/ \E r \in BagToSet(retryTimers) : RetryFire(r)
          \/ \E k \in Slots, exists \in BOOLEAN : ExistsDone(k, exists)
          \/ \E k \in Slots, ok \in BOOLEAN : UrlDone(k, ok)]_vars

\* Private FM started on an empty list queue, whatever the catalog answers to
\* a batch request
InitFm ==
    LET
        FmAnswers ==
            LET
                \* batches getPersonalFmSongs can return
                FmBatches == {<<2, 3>>, <<1>>}
            IN
                {[kind |-> "raise", batch |-> <<>>], [kind |-> "ok", batch |-> <<>>]}
                         \cup {[kind |-> "ok", batch |-> b] : b \in FmBatches}
    IN
        \E a \in FmAnswers : InitWith(<<>>, a)

SpecFm ==
    /\ InitFm
    /\ [][\/ \E direction \in {-1, 1} : Change(direction)
          \/ \E seed \in {0, 1, MaxTracks} : StartFmMode(seed)
          \/ OnPlay
          \/ OnStop
          \/ OnError
          \/ \E t \in timers : TimeoutFire(t)
          \/ \E r \in BagToSet(retryTimers) : RetryFire(r)
          \/ \E k \in Slots : FmFetchDone(k)
          \/ \E k \in Slots, exists \in BOOLEAN : ExistsDone(k, exists)
          \/ \E k \in Slots, ok \in BOOLEAN : UrlDone(k, ok)]_vars

\* Private FM with the timers as the only steps that are bound to happen: an
\* armed playback timeout fires after 8 s and a scheduled retry after its
\* delay, while a request to the catalog or a command to the device may stay
\* unanswered for ever.  FM is started with a seed that is not downloaded.
FairFm ==
    /\ InitFm
    /\ [][\/ StartFmMode(MaxTracks)
          \/ Change(1)
          \/ OnPlay
          \/ OnStop
          \/ \E t \in timers : TimeoutFire(t)
          \/ \E r \in BagToSet(retryTimers) : RetryFire(r)
          \/ \E k \in Slots : FmFetchDone(k)
          \/ \E k \in Slots, exists \in BOOLEAN : ExistsDone(k, exists)
          \/ \E k \in Slots, ok \in BOOLEAN : UrlDone(k, ok)]_vars
    /\ WF_vars(\E t \in timers : TimeoutFire(t))
    /\ WF_vars(\E r \in BagToSet(retryTimers) : RetryFire(r))

InitModes ==
    LET
        \* Every playback mode on a queue of MaxTracks tracks: mode cycling and
        \* private FM on top of change, failures of the catalog's play-URL request and
        \* the retries they schedule
        ModesList == [i \in 1..MaxTracks |-> i]
    IN
        InitWith(ModesList, [kind |-> "ok", batch |-> <<2, 3>>])

SpecModes ==
    /\ InitModes
    /\ [][\/ \E direction \in {-1, 1} : Change(direction)
          \/ ChangeMode
          \/ \E seed \in {0, MaxTracks} : StartFmMode(seed)
          \/ OnPlay
          \/ OnStop
          \/ \E r \in BagToSet(retryTimers) : RetryFire(r)
          \/ \E k \in Slots : FmFetchDone(k)
          \/ \E k \in Slots, exists \in BOOLEAN : ExistsDone(k, exists)
          \/ \E k \in Slots, ok \in BOOLEAN : UrlDone(k, ok)]_vars

\* ---------------------------------------------------------------- start-up
\* initialize called up to MaxInitCalls times, a later call possibly before
\* the reads of an earlier one have completed, and changeMode in between
Initialize ==
    LET
        \* initialize(callbacks) up to its first suspension; c numbers the call
        InitializeMethod(s, c_) ==
            IF s.isInitialized
            THEN NotifyUI(NotifyUI([s EXCEPT !.callbacks = c_], "stateChange", 0),
                          "songChange", s.currSong)
            ELSE [s EXCEPT !.callbacks = c_, !.initCalls[c_] = "downloaded",
                           !.out = Append(@, Eff("readJson", c_))]
    IN
        /\ callbacks < MaxInitCalls
        /\ LET c == callbacks + 1
           IN  Becomes(InitializeMethod(
                   Enter(S, "initialize", [NoOp EXCEPT !.arg = c]), c))

InitReadDone(c) ==
    LET
        \* initialize resumed by the read it awaited (the lines after 63, 64 and 414)
        InitializeAfterRead(s) ==
            CASE s.initCalls[c] = "downloaded" ->
                   [s EXCEPT !.downloadedSongs = DownloadedIds,
                             !.loads.downloaded = @ + 1,
                             !.initCalls[c] = "list",
                             !.out = Append(@, Eff("readJson", c))]
              [] s.initCalls[c] = "list" ->
                   [s EXCEPT !.playList = s.fileList,
                             !.loads.list = @ + 1,
                             !.initCalls[c] = "session",
                             !.out = Append(@, Eff("readJson", c))]
              [] s.initCalls[c] = "session" ->
                   [RestoreState([s EXCEPT !.loads.session = @ + 1,
                                           !.initCalls[c] = "none"], s.session)
                      EXCEPT !.isInitialized = TRUE]
              [] OTHER -> s
    IN
        /\ initCalls[c] # "none"
        /\ Becomes(InitializeAfterRead(
               Enter(S, "initReadDone", [NoOp EXCEPT !.arg = c,
                                                    !.stage = initCalls[c]])))

InitStart ==
    LET
        \* the state at construction, before any initialize: nothing is loaded;
        \* play_list.json holds `list` and player_state.json holds `saved`
        Constructed(list, saved_, answer) ==
            LET
                NoLoads == [downloaded |-> 0, list |-> 0, session |-> 0]
            IN
                [Loaded(<<>>, answer) EXCEPT !.isInitialized = FALSE, !.callbacks = 0,
                                             !.downloadedSongs = {}, !.fileList = list,
                                             !.session = saved_, !.loads = NoLoads]
    IN
        \E saved \in Sessions :
            IsState(Constructed(FullList, saved, [kind |-> "ok", batch |-> <<>>]))

SpecStart ==
    /\ InitStart
    /\ [][\/ Initialize
          \/ \E c \in InitCalls : InitReadDone(c)
          \/ ChangeMode]_vars

\* -------------------------------------------------------------- downloads
\* addTask calls and the continuations of the worker loop
\* addTask(song, callbacks) with callbacks of which `raises` throws when it is
\* invoked ("none": they all return)
AddTaskWith(id, raises) ==
    LET
        AddTaskMethod(s) ==
            IF HasTask(s, id)
            THEN [s EXCEPT !.out = Append(@, Eff("toast", 0))]
            ELSE ProcessQueue(
                     [s EXCEPT !.dlQueue = Append(@, [id |-> id, status |-> "pending",
                                                      no |-> Len(s.admitted) + 1]),
                               !.admitted = Append(@, id),
                               !.taskRaises[Len(s.admitted) + 1] = raises,
                               !.out = Append(@, Eff("toast", id.n))])
    IN
        /\ Len(admitted) < MaxTasks
        /\ \E w \in Workers : dlWorkers[w].pc = "none"
        /\ Becomes(AddTaskMethod(
               Enter(S, "addTask", [NoOp EXCEPT !.arg = id.n, !.stage = id.t])))

\* addTask(song, callbacks) with callbacks that return
AddTask(id) == AddTaskWith(id, "none")

DownloadDone(w, ok) ==
    LET
        \* the worker resumed when _downloadSong settles: the callbacks, then the
        \* finally block, then the pause or the end of the loop
        \* onSuccess runs inside the try block, so an exception it raises is
        \* caught and onError is called as well; an exception raised by onError
        \* leaves the catch block and is thrown on once the finally block has
        \* completed, its pause included; one raised by onFinish leaves the
        \* finally block at once, before the shift
        ProcessAfterDownload(s) ==
            LET task == s.dlWorkers[w].task
                raises == s.taskRaises[s.dlWorkers[w].no]
                calls ==
                    (IF ok THEN <<Eff("onSuccess", task.n)>> ELSE <<>>)
                        \o (IF ~ok \/ raises = "onSuccess"
                            THEN <<Eff("onError", task.n)>> ELSE <<>>)
                        \o <<Eff("onFinish", task.n)>>
                thrown == (raises = "onError" /\ ~ok)
                b == [s EXCEPT !.out = @ \o calls,
                               !.finished = @ \cup {s.dlWorkers[w].no}]
                a == [b EXCEPT !.dlQueue = IF @ = <<>> THEN @ ELSE Tail(@),
                               !.currentTask = NoId]
            IN  IF raises = "onFinish"
                THEN [b EXCEPT !.dlWorkers[w] = NoWorker]
                ELSE IF a.dlQueue # <<>>
                THEN [a EXCEPT !.dlWorkers[w] =
                                   [pc |-> IF thrown THEN "gapRaised" ELSE "gap",
                                    task |-> NoId, no |-> 0],
                               !.out = Append(@, Eff("setTimeout", DOWNLOAD_GAP))]
                ELSE IF thrown
                THEN [a EXCEPT !.dlWorkers[w] = NoWorker]
                ELSE ProcessLoop(a, w)
    IN
        /\ dlWorkers[w].pc = "downloading"
        /\ Becomes(ProcessAfterDownload(
               Enter(S, "downloadDone",
                     [NoOp EXCEPT !.arg = dlWorkers[w].task.n,
                                  !.stage = dlWorkers[w].task.t])))

GapDone(w) ==
    LET
        \* the worker resumed when the pause between two tasks is over: the
        \* next pass of the loop, or the exception that was waiting for the
        \* finally block to complete
        ProcessAfterGap(s) ==
            IF s.dlWorkers[w].pc = "gapRaised"
            THEN [s EXCEPT !.dlWorkers[w] = NoWorker]
            ELSE ProcessLoop(s, w)
    IN
        /\ dlWorkers[w].pc \in {"gap", "gapRaised"}
        /\ Becomes(ProcessAfterGap(Enter(S, "gapDone", NoOp)))

InitDownload == InitWith(<<>>, [kind |-> "ok", batch |-> <<>>])

SpecDownload ==
    /\ InitDownload
    /\ [][\/ \E id \in Ids : AddTask(id)
          \/ \E w \in Workers, ok \in BOOLEAN : DownloadDone(w, ok)
          \/ \E w \in Workers : GapDone(w)]_vars

\* the same with clearQueue and ids of one type, every download attempt
\* settling and every pause between two tasks ending
ClearQueue ==
    LET
        \* clearQueue(): the queue is replaced by an empty one; a download that is
        \* running goes on, and currentTask is left as it is
        ClearQueueMethod(s) ==
            [s EXCEPT !.dlQueue = <<>>,
                      !.cleared = @ \cup {s.dlQueue[k].no : k \in
                                       {j \in 1..Len(s.dlQueue) :
                                            s.dlQueue[j].status = "pending"}}]
    IN
        /\ dlQueue # <<>>
        /\ Becomes(ClearQueueMethod(Enter(S, "clearQueue", NoOp)))

FairDownload ==
    /\ InitDownload
    /\ [][\/ \E n \in TrackIds : AddTask(Num(n))
          \/ \E w \in Workers, ok \in BOOLEAN : DownloadDone(w, ok)
          \/ \E w \in Workers : GapDone(w)
          \/ ClearQueue]_vars
    /\ WF_vars(\E w \in Workers, ok \in BOOLEAN : DownloadDone(w, ok))
    /\ WF_vars(\E w \in Workers : GapDone(w))

\* ------------------------------------------------------- identity of tracks
\* the three lookups that compare track ids, each applied to a track held
\* under the number probe.item and an id that is a number or a string
Verdict(found) == IF found THEN "same" ELSE "differ"

LookUpInPlay ==
    /\ probe.play = "none"
    /\ Becomes([Enter(S, "lookUp", NoOp) EXCEPT !.probe.play =
                   Verdict(FindIndex(<<probe.item>>, probe.id) # -1)])

LookUpInRestore ==
    /\ probe.restore = "none"
    /\ Becomes([Enter(S, "lookUp", NoOp) EXCEPT !.probe.restore =
                   Verdict(FindLastSong(<<probe.item>>, probe.id) # -1)])

LookUpInAddTask ==
    /\ probe.download = "none"
    /\ LET task == [id |-> Num(probe.item), status |-> "pending", no |-> 1]
       IN  Becomes([Enter(S, "lookUp", NoOp) EXCEPT !.probe.download =
                       Verdict(HasTask([S EXCEPT !.dlQueue = <<task>>], probe.id))])

\* ---- one download task, step by step ----

\* the task is concluded as failed; the stand-alone flow asks for the audio
\* file, the lyric file and the 200px cover file to be deleted, the queue
\* flow asks for nothing
FailTask(s) ==
    [s EXCEPT !.flowPc = "failed",
              !.deletes = IF s.flow = "start"
                          THEN @ \cup {"audio", "lyric", "cover200"} ELSE @,
              !.keepScreenOn = IF s.flow = "start" THEN FALSE ELSE @,
              !.out = Append(@, Eff("onError", 0))]

\* Promise.allSettled in the queue flow, Promise.all in the stand-alone flow
AfterSettle(s) ==
    LET
        SucceedTask(s_) ==
            [s_ EXCEPT !.flowPc = "succeeded",
                      !.keepScreenOn = IF s_.flow = "start" THEN FALSE ELSE @,
                      !.downloadedInfo =
                          [made |-> TRUE,
                           localLyricUri |->
                               IF s_.flow = "queue"
                               THEN s_.lyricData = "data" /\ s_.lyricResult = "fulfilled"
                               ELSE s_.lyricData = "data",
                           coverUrl |-> s_.flow = "start" /\ s_.coverUrl = "local"],
                      !.out = Append(@, Eff("onSuccess", 0))]
    IN
        IF s.flowPc # "placing" THEN s
        ELSE IF s.flow = "queue"
        THEN IF "pending" \in {s.songResult, s.lyricResult} THEN s
             ELSE IF s.songResult = "rejected" THEN FailTask(s)
             ELSE SucceedTask(s)
        ELSE IF "rejected" \in {s.songResult, s.lyricResult} THEN FailTask(s)
             ELSE IF "pending" \in {s.songResult, s.lyricResult} THEN s
             ELSE SucceedTask(s)

StartTask(f) ==
    /\ flowPc = "idle"
    /\ Becomes([Enter(S, "startTask", NoOp) EXCEPT
                   !.flow = f, !.flowPc = "fetching",
                   !.keepScreenOn = IF f = "start" THEN TRUE ELSE @,
                   !.out = Append(@, Eff("onStart", 0))])

LookupsDone(url, lyric, cover) ==
    LET
        \* the lookups are in: without a play URL the task fails; otherwise the audio
        \* download and the lyric write are issued together.  writeJson writes
        \* whatever it is given, saveLyricFile resolves at once when given nothing.
        \* A cover resolved locally has been placed as the 96px cover file.
        AfterLookups(s) ==
            LET a == [s EXCEPT !.songPlaybackInfo = IF url THEN "url" ELSE "missing",
                               !.lyricData = IF lyric THEN "data" ELSE "null",
                               !.coverUrl = IF s.flow = "start" THEN cover ELSE "none",
                               !.store = IF s.flow = "start" /\ cover = "local"
                                         THEN @ \cup {"cover96"} ELSE @]
            IN  IF ~url
                THEN FailTask(a)
                ELSE [a EXCEPT !.flowPc = "placing",
                               !.songResult = "pending",
                               !.lyricResult = IF s.flow = "start" /\ ~lyric
                                               THEN "fulfilled" ELSE "pending"]
    IN
        /\ flowPc = "fetching"
        /\ Becomes(AfterLookups(Enter(S, "lookupsDone", NoOp)))

SongDownloadDone(ok) ==
    LET
        AfterSongDownload(s) ==
            AfterSettle([s EXCEPT !.songResult = IF ok THEN "fulfilled" ELSE "rejected",
                                  !.store = IF ok THEN @ \cup {"audio"} ELSE @])
    IN
        /\ songResult = "pending"
        /\ Becomes(AfterSongDownload(Enter(S, "songDownloadDone", NoOp)))

LyricWriteDone(ok) ==
    LET
        AfterLyricWrite(s) ==
            AfterSettle([s EXCEPT !.lyricResult = IF ok THEN "fulfilled" ELSE "rejected",
                                  !.store = IF ok THEN @ \cup {"lyric"} ELSE @])
    IN
        /\ lyricResult = "pending"
        /\ Becomes(AfterLyricWrite(Enter(S, "lyricWriteDone", NoOp)))

\* a delete request is carried out; the file system is not known to keep the
\* order of a write and a delete of the same file, so it may run before a
\* write that was issued earlier
DeleteDone(f) ==
    /\ f \in deletes
    /\ Becomes([Enter(S, "deleteDone", NoOp) EXCEPT
                   !.deletes = @ \ {f}, !.store = @ \ {f}])

\* a task starts from the state the download service is constructed in
SpecTask ==
    /\ InitDownload
    /\ [][\/ \E f \in {"queue", "start"} : StartTask(f)
          \/ \E url \in BOOLEAN, lyric \in BOOLEAN, cover \in {"local", "remote", ""} :
                 LookupsDone(url, lyric, cover)
          \/ \E ok \in BOOLEAN : SongDownloadDone(ok)
          \/ \E ok \in BOOLEAN : LyricWriteDone(ok)
          \* the files a download can leave for one track: music/<id>.mp3,
          \* lyrics/<id>.json, cover/<id>_96px.jpg and cover/<id>_200px.jpg
          \/ \E f \in {"audio", "lyric", "cover96", "cover200"} : DeleteDone(f)]_vars

\* ---- cover resolution ----

\* the job j has settled with r ("local", "remote", or "error" for a
\* rejection): every call that awaits it receives r, and the call that
\* created it removes the key from _coverInflight
SettleJob(s, j, r) ==
    [s EXCEPT !.coverJobs[j].pc = "done",
              !.coverJobs[j].result = r,
              !.coverCalls = [c \in CoverCalls |->
                                 IF @[c].job = j THEN [@[c] EXCEPT !.result = r]
                                 ELSE @[c]],
              !.coverInflight[s.coverJobs[j].key] = 0,
              !.out = Append(@, Eff("cover", j))]

\* the download of the picture to a temporary file is issued
DownloadToTemp(s, j) ==
    [s EXCEPT !.coverJobs[j].pc = "temp",
              !.coverJobs[j].downloads = @ + 1,
              !.out = Append(@, Eff("download", j))]

\* the job after ensureCoverIndexLoaded: the index alone decides whether the
\* cover is local; otherwise the picture URL comes from the short-lived cache
\* or from a song-detail lookup
JobAfterIndex(s, j) ==
    LET k == s.coverJobs[j].key
    IN  IF k \in s.coverIndex THEN SettleJob(s, j, "local")
        ELSE IF k.id \in s.picUrlCache THEN DownloadToTemp(s, j)
        ELSE [s EXCEPT !.coverJobs[j].pc = "detail",
                       !.coverJobs[j].lookups = @ + 1,
                       !.out = Append(@, Eff("fetch", j))]

\* the job of call c for key k, up to its first suspension
StartJob(s, c, k) ==
    LET a == [s EXCEPT !.coverJobs[c] = [NoJob EXCEPT
                                            !.pc = "index", !.key = k,
                                            !.indexed = k \in s.coverIndexFile],
                       !.coverCalls[c] = [key |-> k, job |-> c, result |-> "none"],
                       !.coverInflight[k] = c]
    IN  IF a.coverIndexLoaded
        THEN JobAfterIndex(a, c)
        ELSE [a EXCEPT !.coverIndexLoaded = TRUE, !.indexRead = TRUE]

\* a getSongCoverUrl that starts a job whether or not one is in flight
GetSongCoverUrlAlone(s, c, k) == StartJob(s, c, k)

\* getSongCoverUrl(songId, px, cookie) with valid parameters
GetSongCoverUrlMethod(s, c, k) ==
    IF s.coverInflight[k] # 0
    THEN [s EXCEPT !.coverCalls[c] = [key |-> k, job |-> s.coverInflight[k],
                                      result |-> "none"]]
    ELSE StartJob(s, c, k)

\* the cover is in place: the key enters the index and the index is saved
Placed(s, j) ==
    LET index == s.coverIndex \cup {s.coverJobs[j].key}
    IN  SettleJob([s EXCEPT !.coverIndex = index, !.coverIndexFile = index],
                  j, "local")

\* a placement that records the key whether or not the file is in place
PlacedOrNot(s, j, ok) == Placed(s, j)

AfterCopy(s, j, ok) ==
    IF ok THEN Placed(s, j) ELSE SettleJob(s, j, "remote")

\* what the device did for job j before it called back: e is "downloaded"
\* for a finished download to the temporary file, "placed" for a file moved
\* or copied to its place; nothing is recorded for a failure
DeviceDid(s, e, j, ok) ==
    IF ok THEN [s EXCEPT !.out = Append(@, Eff(e, j))] ELSE s

GetSongCoverUrl(c, k) ==
    /\ coverCalls[c] = NoCall
    /\ \A d \in 1..(c - 1) : coverCalls[d] # NoCall
    /\ Becomes(GetSongCoverUrlMethod(Enter(S, "getSongCoverUrl", NoOp), c, k))

IndexReadDone ==
    LET
        \* ensureCoverIndexLoaded after the read of the index file: the keys read
        \* are added to _coverIndex, and the job that waited for them goes on
        AfterIndexRead(s, j_) ==
            JobAfterIndex([s EXCEPT !.indexRead = FALSE,
                                    !.coverIndex = @ \cup s.coverIndexFile], j_)
    IN
        /\ indexRead
        /\ \E j \in CoverCalls :
               /\ coverJobs[j].pc = "index"
               /\ Becomes(AfterIndexRead(Enter(S, "indexReadDone", NoOp), j))

DetailDone(j, ok) ==
    LET
        \* the song-detail lookup is in: without a picture URL the job rejects
        AfterDetail(s) ==
            IF ok
            THEN DownloadToTemp([s EXCEPT !.picUrlCache = @ \cup {s.coverJobs[j].key.id}],
                                j)
            ELSE SettleJob(s, j, "error")
    IN
        /\ coverJobs[j].pc = "detail"
        /\ Becomes(AfterDetail(Enter(S, "detailDone", NoOp)))

TempDone(j, ok) ==
    LET
        \* the download to the temporary file is over: file.move is issued, or the
        \* remote URL is the result
        AfterTemp(s) ==
            IF ok
            THEN [s EXCEPT !.coverJobs[j].pc = "move",
                           !.coverJobs[j].placements = @ + 1]
            ELSE SettleJob(s, j, "remote")
    IN
        /\ coverJobs[j].pc = "temp"
        /\ Becomes(AfterTemp(DeviceDid(Enter(S, "tempDone", NoOp),
                                       "downloaded", j, ok)))

MoveDone(j, ok) ==
    LET
        \* safeMoveOrCopy: a failed move falls back to file.copy
        AfterMove(s) ==
            IF ok THEN Placed(s, j) ELSE [s EXCEPT !.coverJobs[j].pc = "copy"]
    IN
        /\ coverJobs[j].pc = "move"
        /\ Becomes(AfterMove(DeviceDid(Enter(S, "moveDone", NoOp),
                                       "placed", j, ok)))

CopyDone(j, ok) ==
    /\ coverJobs[j].pc = "copy"
    /\ Becomes(AfterCopy(DeviceDid(Enter(S, "copyDone", NoOp),
                                   "placed", j, ok), j, ok))

\* when the service is loaded the index file holds, for the first n tracks,
\* the 96px key or the keys of both sizes
SpecCover ==
    /\ \E n \in 0..MaxCoverIds, both \in BOOLEAN :
           IsState([Loaded(<<>>, [kind |-> "ok", batch |-> <<>>])
                       EXCEPT !.coverIndexFile =
                           {k \in CoverKeys : k.id <= n /\ (both \/ k.size = 96)}])
    /\ [][\/ \E c \in CoverCalls, k \in CoverKeys : GetSongCoverUrl(c, k)
          \/ IndexReadDone
          \/ \E j \in CoverCalls, ok \in BOOLEAN : DetailDone(j, ok)
          \/ \E j \in CoverCalls, ok \in BOOLEAN : TempDone(j, ok)
          \/ \E j \in CoverCalls, ok \in BOOLEAN : MoveDone(j, ok)
          \/ \E j \in CoverCalls, ok \in BOOLEAN : CopyDone(j, ok)]_vars

\* ---- parseLyric ----
\* A string is the sequence of its characters.  Times are kept in
\* milliseconds: the code's mm * 60 + ss + ms / 1000 seconds.

DigitChars == <<"0", "1", "2", "3", "4", "5", "6", "7", "8", "9">>
IsDigit(c) == \E i \in 1..Len(DigitChars) : DigitChars[i] = c

\* parseInt(ds, 10) of a string of digits
RECURSIVE ParseInt(_)
ParseInt(ds) ==
    LET
        DigitVal(c) == (CHOOSE i \in 1..Len(DigitChars) : DigitChars[i] = c) - 1
    IN
        IF ds = <<>> THEN 0
        ELSE 10 * ParseInt(SubSeq(ds, 1, Len(ds) - 1)) + DigitVal(ds[Len(ds)])

\* the character of raw at i, "" past the end
At(raw, i) == IF i \in 1..Len(raw) THEN raw[i] ELSE ""

\* the length of the run of digits of raw that starts at i
RECURSIVE DigitRun(_, _)
DigitRun(raw, i) == IF IsDigit(At(raw, i)) THEN 1 + DigitRun(raw, i + 1) ELSE 0

\* timeRe = /\[(\d{1,2}):(\d{2})(?:[.:](\d{1,3}))?\]/ tried at position i of
\* raw: the length matched (0 for none) and the three groups
MatchAt(raw, i) ==
    LET
        NoMatch == [len |-> 0, mm |-> <<>>, ss |-> <<>>, frac |-> <<>>]
    IN
        LET nm == IF IsDigit(At(raw, i + 1)) /\ IsDigit(At(raw, i + 2))
                       /\ At(raw, i + 3) = ":" THEN 2
                  ELSE IF IsDigit(At(raw, i + 1)) /\ At(raw, i + 2) = ":" THEN 1
                  ELSE 0
            p == i + nm + 2
            q == p + 2
            nf == DigitRun(raw, q + 1)
        IN  IF At(raw, i) # "[" \/ nm = 0 THEN NoMatch
            ELSE IF ~(IsDigit(At(raw, p)) /\ IsDigit(At(raw, p + 1))) THEN NoMatch
            ELSE IF At(raw, q) \in {".", ":"} /\ nf \in 1..3
                        /\ At(raw, q + nf + 1) = "]"
            THEN [len |-> q + nf + 2 - i, mm |-> SubSeq(raw, i + 1, i + nm),
                  ss |-> SubSeq(raw, p, p + 1), frac |-> SubSeq(raw, q + 1, q + nf)]
            ELSE IF At(raw, q) = "]"
            THEN [len |-> q + 1 - i, mm |-> SubSeq(raw, i + 1, i + nm),
                  ss |-> SubSeq(raw, p, p + 1), frac |-> <<>>]
            ELSE NoMatch

\* the successive matches of timeRe in raw from position i on
RECURSIVE Matches(_, _)
Matches(raw, i) ==
    IF i > Len(raw) THEN <<>>
    ELSE LET m == MatchAt(raw, i)
         IN  IF m.len > 0 THEN <<m>> \o Matches(raw, i + m.len)
             ELSE Matches(raw, i + 1)

\* raw.replace(timeRe, "") from position i on
RECURSIVE Strip(_, _)
Strip(raw, i) ==
    IF i > Len(raw) THEN <<>>
    ELSE LET m == MatchAt(raw, i)
         IN  IF m.len > 0 THEN Strip(raw, i + m.len)
             ELSE <<raw[i]>> \o Strip(raw, i + 1)

RECURSIVE Trim(_)
Trim(cs) ==
    LET
        WhiteSpace == {" ", "\r", "\t"}
    IN
        IF cs = <<>> THEN cs
        ELSE IF Head(cs) \in WhiteSpace THEN Trim(Tail(cs))
        ELSE IF cs[Len(cs)] \in WhiteSpace THEN Trim(SubSeq(cs, 1, Len(cs) - 1))
        ELSE cs

\* a fraction taken as it is written, whatever its number of digits
FracAsWritten(frac) == IF frac = <<>> THEN 0 ELSE ParseInt(frac)

\* the milliseconds of the fraction group
FracMs(frac) ==
    LET
        \* frac.slice(0, 3).padEnd(3, "0")
        PadEnd3 ==
            LET f == SubSeq(frac, 1, IF Len(frac) < 3 THEN Len(frac) ELSE 3)
            IN  f \o [i \in 1..(3 - Len(f)) |-> "0"]
    IN
        IF frac = <<>> THEN 0
        ELSE IF Len(frac) = 1 THEN ParseInt(frac) * 100
        ELSE IF Len(frac) = 2 THEN ParseInt(frac) * 10
        ELSE ParseInt(PadEnd3)

\* the time of a match
MatchTime(m) == (ParseInt(m.mm) * 60 + ParseInt(m.ss)) * 1000 + FracMs(m.frac)

\* str.split("\n")
RECURSIVE Split(_)
Split(str) ==
    IF \A i \in 1..Len(str) : str[i] # "\n" THEN <<str>>
    ELSE LET n == CHOOSE i \in 1..Len(str) :
                      str[i] = "\n" /\ \A j \in 1..(i - 1) : str[j] # "\n"
         IN  <<SubSeq(str, 1, n - 1)>> \o Split(SubSeq(str, n + 1, Len(str)))

\* a line that yields one entry only, at its first tag
FirstTagOnly(raw) ==
    LET times == Matches(raw, 1)
        text == Trim(Strip(raw, 1))
    IN  IF raw = <<>> \/ times = <<>> \/ text = <<>> THEN <<>>
        ELSE <<[time |-> MatchTime(times[1]), text |-> text]>>

\* the entries one line adds to result
LineEntries(raw) ==
    LET times == Matches(raw, 1)
        text == Trim(Strip(raw, 1))
    IN  IF raw = <<>> \/ times = <<>> \/ text = <<>> THEN <<>>
        ELSE [k \in 1..Len(times) |-> [time |-> MatchTime(times[k]), text |-> text]]

RECURSIVE AllEntries(_)
AllEntries(lines) ==
    IF lines = <<>> THEN <<>>
    ELSE LineEntries(Head(lines)) \o AllEntries(Tail(lines))

\* e put into the sorted list es after the entries that are not later
RECURSIVE InsertByTime(_, _)
InsertByTime(es, e) ==
    IF es = <<>> THEN <<e>>
    ELSE IF es[Len(es)].time <= e.time THEN Append(es, e)
    ELSE Append(InsertByTime(SubSeq(es, 1, Len(es) - 1), e), es[Len(es)])

\* a sort that leaves the list as it is
KeepOrder(es) == es

\* result.sort((a, b) => a.time - b.time)
RECURSIVE SortByTime(_)
SortByTime(es) ==
    IF es = <<>> THEN <<>>
    ELSE InsertByTime(SortByTime(SubSeq(es, 1, Len(es) - 1)), es[Len(es)])

\* the single entry returned for a text without lyrics; its four-character
\* text stands here as one token
Placeholder == [time |-> 0, text |-> <<"no lyrics">>]

\* ---- lyric texts as they are composed ----

\* n written with w digits
RECURSIVE Pad(_, _)
Pad(n, w) ==
    IF w = 0 THEN <<>> ELSE Pad(n \div 10, w - 1) \o <<DigitChars[(n % 10) + 1]>>

\* a tag of minutes m on mw digits, seconds s, and a fraction f on fw digits
\* (fw = 0: no fraction) after the separator sep
Tag(m, mw, s, f, fw, sep) ==
    [kind |-> "tag", m |-> m, mw |-> mw, s |-> s, f |-> f, fw |-> fw,
     sep |-> sep, chars |-> <<>>]

Piece(cs) ==
    [kind |-> "text", m |-> 0, mw |-> 0, s |-> 0, f |-> 0, fw |-> 0,
     sep |-> "", chars |-> cs]

RECURSIVE WrittenLine(_)
WrittenLine(segs) ==
    LET
        Written(seg) ==
            IF seg.kind = "text" THEN seg.chars
            ELSE <<"[">> \o Pad(seg.m, seg.mw) \o <<":">> \o Pad(seg.s, 2)
                 \o (IF seg.fw = 0 THEN <<>> ELSE <<seg.sep>> \o Pad(seg.f, seg.fw))
                 \o <<"]">>
    IN
        IF segs = <<>> THEN <<>> ELSE Written(Head(segs)) \o WrittenLine(Tail(segs))

RECURSIVE WrittenText(_)
WrittenText(lines) ==
    IF lines = <<>> THEN <<>>
    ELSE IF Len(lines) = 1 THEN WrittenLine(lines[1])
    ELSE WrittenLine(lines[1]) \o <<"\n">> \o WrittenText(Tail(lines))

\* parseLyric(lrcString)
ParseLyricFn(str) ==
    LET result == SortByTime(AllEntries(Split(str)))
    IN  IF result # <<>> THEN result ELSE <<Placeholder>>

ParseLyric ==
    /\ op # "parseLyric"
    /\ Becomes([Enter(S, "parseLyric", NoOp) EXCEPT
                   !.lyricOut = ParseLyricFn(lrcString)])

InitLyric ==
    LET
        LyricTexts ==
            LET
                SegLines ==
                    LET
                        \* the tags and pieces of the composed texts: [00:01.50], [00:01:50],
                        \* [01:00], a letter, a blank, and a tag-like piece that is no tag
                        Segs ==
                            {Tag(0, 2, 1, 50, 2, "."), Tag(0, 2, 1, 50, 2, ":"), Tag(1, 2, 0, 0, 0, "."),
                             Piece(<<"a">>), Piece(<<" ">>), Piece(<<"[", "0", ":", "1", "]">>)}
                    IN
                        UNION {[1..n -> Segs] : n \in 0..MaxSegs}
            IN
                LET
                    \* every shape of tag: one or two digits of minutes, and no fraction or a
                    \* fraction of one, two or three digits after a dot or a colon
                    TagShapes ==
                        {Tag(m[1], m[2], s, f[1], f[2], sep) :
                            m \in {<<0, 1>>, <<0, 2>>, <<3, 1>>, <<12, 2>>},
                            s \in {1, 59},
                            f \in {<<0, 0>>, <<5, 1>>, <<50, 2>>, <<5, 2>>, <<213, 3>>, <<7, 3>>},
                            sep \in {".", ":"}}
                IN
                    {<<<<tag, Piece(<<"a">>)>>>> : tag \in TagShapes}
                        \cup UNION {[1..n -> SegLines] : n \in 1..MaxLines}
    IN
        \E text \in LyricTexts :
            IsState([Loaded(<<>>, [kind |-> "ok", batch |-> <<>>])
                        EXCEPT !.lyricIn = text, !.lrcString = WrittenText(text)])

SpecLyric == InitLyric /\ [][ParseLyric]_vars

\* ---- cookLyricsFromRaw, makeFallbackCooked, isCookedLyricFormat ----
\* A cooked object is kept by its v, songId, type and lines; a line is
\* [t, o, tr, ro] with <<>> for a tr or ro the object does not have (a tr or
\* ro that is set is never the empty string).  flags, ver and by are copied
\* from the payload and read by none of the three functions.

\* makeFallbackCooked(songId, message): String(message || <the default>)
MakeFallbackCooked(songId, message) ==
    [v |-> 3, songId |-> JsString(songId), type |-> "chinese",
     lines |-> <<[t |-> 0,
                  o |-> IF message # <<>> THEN message ELSE <<"no lyrics">>,
                  tr |-> <<>>, ro |-> <<>>]>>]

\* a cook that names the type after the translation channel alone
CookTypeByTranslation(raw, songId, version) ==
    [MakeFallbackCooked(songId, <<>>) EXCEPT
        !.type = IF raw.tlyric.has /\ raw.tlyric.lyric # <<>>
                 THEN "english" ELSE "chinese"]

\* cookLyricsFromRaw(rawData, songId) of the copy `version` of the file:
\* "utils" is src/utils/lyric_cook.js, "final" the copy that returns the
\* fallback for a payload marked nolyric or uncollected.  A channel array
\* that is null is <<>> here (parseLyric returns no empty array).
CookLyricsFromRaw(raw, songId, version) ==
    LET \* parseLyric of each channel that is a non-empty string
        parsed ==
            [c \in {"lrc", "tlyric", "romalrc"} |->
                IF raw[c].has /\ raw[c].lyric # <<>> THEN ParseLyricFn(raw[c].lyric)
                ELSE <<>>]
        \* time.toFixed(3) of a time of t milliseconds: the seconds and the
        \* three decimals
        ToFixed3(t) == <<t \div 1000, t % 1000>>
        \* createMap(arr).get(key): the value set last under the key, <<>> for
        \* none (and for a null map)
        Get(arr, key) ==
            LET set == {i \in 1..Len(arr) :
                           ToFixed3(arr[i].time) = key /\ Trim(arr[i].text) # <<>>}
            IN  IF set = {} THEN <<>>
                ELSE Trim(arr[CHOOSE i \in set : \A j \in set : j <= i].text)
        HasText(line) == line.o # <<>>
        Lines(originalArr, translationArr, romajiArr) ==
            SelectSeq([i \in 1..Len(originalArr) |->
                          [t |-> originalArr[i].time,
                           o |-> Trim(originalArr[i].text),
                           tr |-> Get(translationArr, ToFixed3(originalArr[i].time)),
                           ro |-> Get(romajiArr, ToFixed3(originalArr[i].time))]],
                      HasText)
        Type(translationArr, romajiArr) ==
            IF romajiArr # <<>> /\ translationArr # <<>> THEN "japanese"
            ELSE IF romajiArr # <<>> /\ translationArr = <<>> THEN "cantonese"
            ELSE IF translationArr # <<>> THEN "english"
            ELSE "chinese"
        Result(type, lines) ==
            [v |-> 3, songId |-> JsString(songId), type |-> type,
             lines |-> IF lines # <<>> THEN lines
                       ELSE <<[t |-> 0, o |-> <<"no lyrics">>,
                               tr |-> <<>>, ro |-> <<>>]>>]
        Cooked(arr) ==
            Result(Type(arr.tlyric, arr.romalrc), Lines(arr.lrc, arr.tlyric, arr.romalrc))
    IN  IF version = "final" /\ raw.nolyric
        THEN MakeFallbackCooked(songId, <<"no lyric for this song">>)
        ELSE IF version = "final" /\ raw.uncollected
        THEN MakeFallbackCooked(songId, <<"lyric not collected">>)
        ELSE Cooked(parsed)

\* an isCooked that accepts later versions only
IsCookedAboveThree(obj) ==
    /\ obj.isObject
    /\ obj.v.t \in {"number", "string"} /\ obj.v.n > 3
    /\ obj.lines.is = "array"

\* isCookedLyricFormat(obj).  obj is given by what the function reads: whether
\* it is a non-null object, its v (a number, a string of digits, or
\* undefined), whether lines is absent, something that is no array, or an
\* array, and of each element whether it is a non-null object and the typeof
\* of its t and o.
IsCookedLyricFormat(obj) ==
    /\ obj.isObject
    /\ obj.v.t \in {"number", "string"} /\ obj.v.n >= 3
    /\ obj.lines.is = "array"
    /\ \/ obj.lines.items = <<>>
       \/ /\ obj.lines.items[1].isObject
          /\ obj.lines.items[1].t = "number"
          /\ obj.lines.items[1].o = "string"

Cook ==
    LET \* the payload: its marks, and each channel with its text as written
        rawData ==
            [c \in {"nolyric", "uncollected", "lrc", "tlyric", "romalrc"} |->
                IF c \in {"nolyric", "uncollected"} THEN cookIn[c]
                ELSE [has |-> cookIn[c].has, lyric |-> WrittenText(cookIn[c].lines)]]
    IN  /\ op # "cook"
        /\ Becomes([Enter(S, "cook", NoOp) EXCEPT
                       !.cooked = CookLyricsFromRaw(rawData, cookIn.songId,
                                                    cookIn.version)])

Fallback ==
    /\ op # "fallback"
    /\ Becomes([Enter(S, "fallback", NoOp) EXCEPT
                   !.cooked = MakeFallbackCooked(cookIn.songId, cookIn.message)])

\* isCooked called with the object cook or the fallback constructor returned
\* last (fromCook), or with any object
IsCooked(fromCook, any) ==
    LET returned ==
            [from |-> op, isObject |-> TRUE, v |-> Num(cooked.v),
             lines |-> [is |-> "array",
                        items |-> [i \in 1..Len(cooked.lines) |->
                                      [isObject |-> TRUE, t |-> "number",
                                       o |-> "string"]]]]
        obj == IF fromCook THEN returned ELSE any
    IN  /\ op # "isCooked"
        /\ fromCook => op \in {"cook", "fallback"}
        /\ Becomes([Enter(S, "isCooked", NoOp) EXCEPT
                       !.cookProbe = obj,
                       !.isCookedOut = IsCookedLyricFormat(obj)])

InitCook ==
    LET
        \* [00:00.00] and [00:01.00]
        T0 == Tag(0, 2, 0, 0, 2, ".")
        T1 == Tag(0, 2, 1, 0, 2, ".")
        \* a channel: absent, or one of these texts
        Channel(texts) ==
            {[has |-> FALSE, lines |-> <<>>]} \cup {[has |-> TRUE, lines |-> ls] : ls \in texts}
        \* the empty string, a line at 0, a line at 1 s followed by a blank, a
        \* tag without text, a text without tag, two tags on one line after a
        \* line of another text
        Empty == <<>>
        At0 == <<<<T0, Piece(<<"a">>)>>>>
        At1 == <<<<T1, Piece(<<"b">>), Piece(<<" ">>)>>>>
        TagOnly == <<<<T0>>>>
        NoTag == <<<<Piece(<<"a">>)>>>>
        TwoLines == <<<<T1, Piece(<<"a">>)>>, <<T0, T1, Piece(<<"b">>)>>>>
    IN
        \E marks \in {<<"utils", FALSE, FALSE>>, <<"utils", TRUE, FALSE>>,
                      <<"final", FALSE, FALSE>>, <<"final", TRUE, FALSE>>,
                      <<"final", FALSE, TRUE>>},
           call \in {<<Num(1), <<>>>>, <<JsString(Num(2)), <<"no lyric for this song">>>>},
           lrc \in Channel({At0, NoTag, TwoLines}),
           tlyric \in Channel({Empty, At0, At1, TagOnly}),
           romalrc \in Channel({Empty, At1, TwoLines}) :
            IsState([Loaded(<<>>, [kind |-> "ok", batch |-> <<>>]) EXCEPT
                        !.cookIn = [version |-> marks[1], songId |-> call[1],
                                    message |-> call[2], nolyric |-> marks[2],
                                    uncollected |-> marks[3], lrc |-> lrc,
                                    tlyric |-> tlyric, romalrc |-> romalrc]])

\* the objects isCooked is tried on besides those that cook returns: what is
\* no object; objects with well-formed lines whose v is undefined, 2 or "3";
\* objects whose v is 3 and whose lines is absent, no array, the empty array,
\* or an array whose first element is null, well formed, has a t that is no
\* number or an o that is no string
SpecCook ==
    InitCook
        /\ [][\/ Cook
              \/ Fallback
              \/ IsCooked(TRUE, cookProbe)
              \/ \E isObject \in BOOLEAN,
                    v \in {NoId, Num(2), Num(3), JsString(Num(3))},
                    lines \in {[is |-> "absent", items |-> <<>>],
                               [is |-> "other", items |-> <<>>],
                               [is |-> "array", items |-> <<>>]}
                        \cup {[is |-> "array",
                               items |-> <<[isObject |-> e[1], t |-> e[2], o |-> e[3]]>>] :
                                 e \in {<<FALSE, "undefined", "undefined">>,
                                        <<TRUE, "number", "string">>,
                                        <<TRUE, "string", "string">>,
                                        <<TRUE, "number", "undefined">>}} :
                     /\ ~isObject => v = NoId /\ lines.is = "absent"
                     /\ (isObject /\ v # Num(3)) =>
                            /\ lines.is = "array"
                            /\ lines.items # <<>>
                            /\ lines.items[1] = [isObject |-> TRUE, t |-> "number",
                                                 o |-> "string"]
                     /\ IsCooked(FALSE, [from |-> "any", isObject |-> isObject,
                                         v |-> v, lines |-> lines])]_vars

SpecIds ==
    /\ \E n \in TrackIds, id \in Ids :
           IsState([Loaded(<<>>, [kind |-> "ok", batch |-> <<>>])
                       EXCEPT !.probe = [NoProbe EXCEPT !.item = n, !.id = id]])
    /\ [][\/ LookUpInPlay
          \/ LookUpInRestore
          \/ LookUpInAddTask]_vars

InitQueue ==
    LET
        QueueSessions ==
            {NoSession} \cup
            {[lastSongId |-> Num(MaxTracks - 1), stamped |-> TRUE,
              age |-> SESSION_MAX_AGE, playMode |-> m, lastPlayDuration |-> 1] :
                 m \in {0, 2}}
    IN
        LET
            \* ------------------------------------------------- the queue and its cursors
            \* play, change and startFmMode on a queue that starts empty or with two
            \* tracks, after an initialize that has gone through a session
            QueueLists == {<<>>, [i \in 1..(MaxTracks - 1) |-> i]}
        IN
            \E list \in QueueLists, saved \in QueueSessions :
                /\ list = <<>> => saved = NoSession
                /\ InitRestored(list, saved, [kind |-> "ok", batch |-> <<2, 3>>])

SpecQueue ==
    /\ InitQueue
    /\ [][\/ \E id \in {0, MaxTracks}, hasInfo \in BOOLEAN : Play(id, hasInfo)
          \/ \E ok \in BOOLEAN : PlayWriteDone(ok)
          \/ \E direction \in {-1, 1} : Change(direction)
          \/ \E seed \in {0, 1} : StartFmMode(seed)
          \/ OnPlay
          \/ OnStop
          \/ \E k \in Slots : FmFetchDone(k)
          \/ \E k \in Slots, exists \in BOOLEAN : ExistsDone(k, exists)
          \/ \E k \in Slots : UrlDone(k, TRUE)]_vars

InitShuffle ==
    LET
        \* ------------------------------------------------------- the playback modes
        \* changeMode among play, change and startFmMode, on a queue of two tracks
        \* with no download record, after an initialize that found no session or
        \* restored one saved in Shuffle mode
        ShuffleSessions ==
            {NoSession,
             [lastSongId |-> Num(MaxTracks - 1), stamped |-> TRUE,
              age |-> SESSION_MAX_AGE, playMode |-> 2, lastPlayDuration |-> 1]}
    IN
        \E saved \in ShuffleSessions :
            IsState(RestoreState(
                [Loaded([i \in 1..(MaxTracks - 1) |-> i],
                        [kind |-> "ok", batch |-> <<2, 3>>])
                    EXCEPT !.session = saved, !.downloadedSongs = {}], saved))

ShuffleRoom == latest.slot < MaxShuffleAttempts

SpecShuffle ==
    /\ InitShuffle
    /\ [][\/ ShuffleRoom /\ Play(MaxTracks, TRUE)
          \/ ShuffleRoom /\ PlayWriteDone(TRUE)
          \/ \E direction \in {-1, 1} : ShuffleRoom /\ Change(direction)
          \/ ChangeMode
          \/ \E seed \in {0, 1} : ShuffleRoom /\ StartFmMode(seed)
          \/ OnPlay
          \/ OnStop
          \/ \E k \in Slots : FmFetchDone(k)
          \/ \E k \in Slots : UrlDone(k, TRUE)]_vars

\* ------------------------------------------------------------ properties
TypeOK ==
    /\ currSong \in {0} \cup TrackIds
    /\ src \in {0} \cup TrackIds
    /\ Cardinality(timers) <= 1
    /\ retryCount \in 0..(MAX_PLAYBACK_RETRIES - 1)
    /\ BagCardinality(retryTimers) <= MaxRetryTimers
    /\ playWrite \in 0..MaxPlayWrites
    /\ Len(playCalls) = playWrite
    /\ isInitialized => callbacks > 0
    /\ callbacks \in 0..MaxInitCalls
    /\ session \in Sessions
    /\ Len(dlQueue) <= MaxTasks
    /\ currentTask \in {NoId} \cup Ids

\* positions in the effect list o of the effects named e
EffectsIn(o, e) == {i \in 1..Len(o) : o[i].e = e}

\* the tracks for which the effects in o ask for a source
ResolvedIn(o) == {o[i].a : i \in EffectsIn(o, "exists") \cup EffectsIn(o, "url")}

\* the last handler ran the error handler, which counted failure number n
Failed(n) == \E i \in EffectsIn(out, "toast") : out[i].a = n

Terminal == Failed(MAX_PLAYBACK_RETRIES)

\* C1: when three play attempts in a row, counted from a retry counter of 0
\* and with no onplay in between, have each ended in the error handler, the
\* third failure leaves the player Idle: no current track, not playing, the
\* counter back at 0 and no automatic change(+1) left scheduled.
C1_IdleAfterThreeFailures ==
    (/\ Terminal
     /\ streak = MAX_PLAYBACK_RETRIES
     /\ clean
     /\ latest.slot = MAX_PLAYBACK_RETRIES)
        => /\ currSong = 0
           /\ ~isPlaying
           /\ retryCount = 0
           /\ retryTimers = EmptyBag

\* C2: the retry counter counts consecutive failures only: it is 0 after every
\* device onplay, and the terminal reset is reached only by three failures
\* with no onplay between them.
C2_CounterCountsConsecutive ==
    /\ op = "onplay" => retryCount = 0
    /\ Terminal => streak = MAX_PLAYBACK_RETRIES

\* C3: the completion of a request whose attempt timed out, after the retry
\* scheduled by that timeout has started a newer attempt, changes neither the
\* current track, the device source, the retry counter, the reentrancy guard
\* nor the newer attempt's timeout.
C3_LateCompletionInert ==
    [][(op' \in {"existsDone", "urlDone"} /\ opReq'.byRetry)
          => UNCHANGED <<currSong, src, retryCount, isChangingSong,
                         timers, playTimeoutId>>]_vars

\* C4: at most one play attempt is outstanding at any moment.
C4_OneAttemptOutstanding ==
    LET
        \* the attempts that wait for a request and have seen neither the error
        \* handler nor a reset
        Outstanding ==
            {k \in Slots : inflight[k].stage # "none" /\ "ended" \notin inflight[k].marks}
    IN
        Cardinality(Outstanding) <= 1

\* C5 as stated: after a device onplay, onpause, onstop or onerror no playback
\* timeout remains armed.
C5_NoTimeoutAfterDeviceSignal ==
    op \in {"onplay", "onpause", "onstop", "onerror"} => timers = {}

\* C5: after a device onplay or onerror no playback timeout remains armed,
\* while onpause and onstop leave the timeout as it is; a handler in which an
\* attempt resolves a track leaves exactly one timeout armed, and never is
\* more than one armed: the one the handle names, set to 8 seconds.
C5_TimeoutDiscipline ==
    /\ [](/\ op \in {"onplay", "onerror"} => timers = {} /\ playTimeoutId = 0
          /\ Cardinality(timers) <= 1
          /\ \A t \in timers : t.id = playTimeoutId /\ t.ms = 8000
          /\ (op # "existsDone" /\ ResolvedIn(out) # {})
                => Cardinality(timers) = 1)
    /\ [][op' \in {"onpause", "onstop"}
             => UNCHANGED <<timers, playTimeoutId>>]_vars

\* an onstop delivered while an attempt waits for the device to start: the
\* attempt's timeout is still armed
C5_Witness == op = "onstop" /\ Cardinality(timers) = 1 /\ devPending = {"play"}

\* C6 as stated: an accepted retry on a list queue targets the next queue
\* index modulo the queue length, and in FM the head of the FM queue.
C6_RetryTargetsNextIndex ==
    [][(op' = "retry" /\ ~isChangingSong)
          => IF isFmMode
             THEN fmQueue # <<>> => ResolvedIn(out') = {Head(fmQueue)}
             ELSE playList # <<>>
                     => currentIndex' = (currentIndex + 1) % Len(playList)]_vars

\* C6: a failure that leaves the counter at n < 3 schedules exactly one
\* change(+1), 1500 + 1000 * n ms later, and one that brings it to 3 schedules
\* none; a retry that fires while the guard is clear targets, in Loop and
\* RepeatOne, the next queue index modulo the queue length, in Shuffle the
\* entry at the next position of the shuffle order, in FM the head of the FM
\* queue.
C6_RetrySchedule ==
    /\ [](\A n \in 1..MAX_PLAYBACK_RETRIES : Failed(n) =>
            IF n < MAX_PLAYBACK_RETRIES
            THEN /\ retryCount = n
                 /\ Cardinality(EffectsIn(out, "setTimeout")) = 1
                 /\ \A i \in EffectsIn(out, "setTimeout") :
                        /\ out[i].a = 1500 + 1000 * n
                        /\ \E r \in BagToSet(retryTimers) : r.delay = out[i].a
            ELSE EffectsIn(out, "setTimeout") = {})
    /\ [][/\ \A n \in 1..MAX_PLAYBACK_RETRIES : Failed(n)' =>
                BagCardinality(retryTimers') = BagCardinality(retryTimers)
                    + (IF n < MAX_PLAYBACK_RETRIES THEN 1 ELSE 0)
          /\ (op' = "retry" /\ ~isChangingSong) =>
                IF isFmMode
                THEN fmQueue # <<>> => /\ ResolvedIn(out') = {Head(fmQueue)}
                                       /\ fmQueue' = Tail(fmQueue)
                ELSE playList # <<>> =>
                       /\ ResolvedIn(out') = {playList[currentIndex' + 1]}
                       /\ IF playMode = 2
                          THEN LET m == Len(shuffledPlayList')
                               IN  /\ shuffledIndex' = (shuffledIndex + 1) % m
                                   /\ currentIndex' =
                                          shuffledPlayList'[shuffledIndex' + 1]
                          ELSE currentIndex' =
                                   (currentIndex + 1) % Len(playList)]_vars

\* a retry fired in Shuffle and resolved a track other than the next of the queue
C6_Witness ==
    /\ op = "retry"
    /\ playMode = 2
    /\ ~isFmMode
    /\ ResolvedIn(out) # {}
    /\ shuffledPlayList # [i \in 1..Len(playList) |-> i - 1]

\* C7: in every handler the device source is bound to a track only after the
\* songChange for that track, with no other songChange in between, so the
\* last songChange names the track of the source just bound.
C7_SongChangeBeforeSource ==
    \A i \in EffectsIn(out, "src") :
        /\ \E j \in 1..(i - 1) :
              /\ out[j] = Eff("songChange", out[i].a)
              /\ \A l \in (j + 1)..(i - 1) : out[l].e # "songChange"
        /\ lastSongChange = src

\* the play-URL request of an attempt succeeded and its track was bound
C7_Witness ==
    /\ op = "urlDone"
    /\ EffectsIn(out, "src") # {}
    /\ src = opReq.song
    /\ lastSongChange = opReq.song

\* C8: startFmMode called while no fetch is in progress issues exactly one
\* batch request, and with no seed and a catalog that answers a non-empty
\* batch FM mode stays active.
C8_StartFmFetchesOneBatch ==
    (op = "startFmMode" /\ out # <<>>)
        => /\ Cardinality(EffectsIn(out, "fmStart")) = 1
           /\ (opReq.arg = 0 /\ fmAnswer.kind = "ok" /\ fmAnswer.batch # <<>>)
                 => isFmMode

C10_FmForwardOnly ==
    /\ []((isFmMode /\ EffectsIn(out, "src") # {} /\ "prior" \notin opReq.marks)
             => "overtaken" \notin opReq.marks)
    /\ [][/\ (op' = "change" /\ opReq'.arg < 0 /\ isFmMode)
                => UNCHANGED <<fmQueue, currSong, src, devPending, devPlaying>>
          /\ (op' \in {"change", "retry"} /\ opReq'.arg > 0
                 /\ isFmMode /\ ~isChangingSong)
                => IF fmQueue # <<>>
                   THEN /\ fmQueue' = Tail(fmQueue)
                        /\ ResolvedIn(out') = {Head(fmQueue)}
                   ELSE EffectsIn(out', "fm") # {}]_vars


\* C11: play(id, info) for an id absent from the queue, accepted while no
\* change is outstanding, puts the track at the head of the queue and has the
\* queue written, and once it is written the track resolved for playback is
\* the one with that id, in every playback mode, private FM included.
C11_InsertedTrackIsPlayed ==
    /\ (op = "play" /\ EffectsIn(out, "writeJson") # {})
          => ListAt(playList, 0) = opReq.arg
    /\ (op = "playWriteDone" /\ opReq.stage = "written" /\ "free" \in opReq.marks)
          => ResolvedIn(out) = {opReq.arg}

\* C12: play() with no id on an empty queue, and play(id) for an id absent
\* from the queue with no track information, are rejected without effect: the
\* queue, the current index, the shuffle cursor, the current track, the guard
\* and the device stay as they were, nothing is written and no play attempt
\* starts; the caller only sees a toast.
C12_RejectedPlayHasNoEffect ==
    [][LET
        \* play(id, info) as called is turned down: no id and an empty queue, or an id
        \* that is not in the queue and no track information
        PlayRejected(id_, hasInfo_) ==
            IF id_ = 0 THEN playList = <<>>
            ELSE FindIndex(playList, Num(id_)) = -1 /\ ~hasInfo_
        IN \A id \in {0} \cup TrackIds, hasInfo \in BOOLEAN :
              (op' = "play" /\ Play(id, hasInfo) /\ PlayRejected(id, hasInfo))
                 => /\ UNCHANGED <<playList, currentIndex, shuffledIndex,
                                   shuffledPlayList, currSong, isPlaying,
                                   isChangingSong, src, devPending, devPlaying,
                                   fileList, playWrite, playCalls, inflight,
                                   latest, timers, playTimeoutId, retryCount>>
                    /\ out' = <<Eff("toast", 0)>>]_vars

C12_Witness ==
    /\ op = "play"
    /\ opReq.arg # 0
    /\ out = <<Eff("toast", 0)>>
    /\ playList # <<>>
    /\ FindIndex(playList, Num(opReq.arg)) = -1
    /\ currSong # 0

IsBijection(list, n) ==
    /\ Len(list) = n
    /\ {list[k] : k \in 1..Len(list)} = 0..(n - 1)

\* C14: whenever changeMode enters Shuffle with a non-empty queue of length n
\* and a current index c in 0..n-1, the shuffle list it generates holds each
\* index of 0..n-1 exactly once and the shuffle cursor points at c:
\* shuffledPlayList[shuffledIndex] = c.
C14_ShuffleEnteredAtCurrent ==
    (/\ op = "changeMode"
     /\ EffectsIn(out, "toast") # {}
     /\ playMode = 2
     /\ playList # <<>>
     /\ currentIndex \in 0..(Len(playList) - 1))
        => /\ IsBijection(shuffledPlayList, Len(playList))
           /\ shuffledIndex \in 0..(Len(playList) - 1)
           /\ ListAt(shuffledPlayList, shuffledIndex) = currentIndex

C14_Witness ==
    /\ op = "changeMode"
    /\ EffectsIn(out, "toast") # {}
    /\ playMode = 2
    /\ Len(playList) = MaxTracks
    /\ currentIndex \in 1..(Len(playList) - 1)
    /\ shuffledPlayList # Keys(Len(playList))
    /\ shuffledIndex # currentIndex
    /\ ListAt(shuffledPlayList, shuffledIndex) = currentIndex

\* the last handler was a change() that went on to play: the guard was clear,
\* private FM was off and the queue was not empty
ChangeAccepted ==
    /\ op = "change"
    /\ ~isFmMode
    /\ playList # <<>>
    /\ EffectsIn(out, "loading") # {}

\* C15: after any sequence of play, change, changeMode, startFmMode and a
\* session restore, an accepted change(+1 or -1) on a non-empty queue in
\* Shuffle mode works on a shuffle list that holds each index of the queue as
\* it is at that moment exactly once (it is regenerated when its length
\* differs from the queue's) and yields a current index in 0..length-1; in
\* Loop and RepeatOne mode it yields a current index in 0..length-1 as well.
C15_ChangeStaysInQueue ==
    ChangeAccepted
        => /\ currentIndex \in 0..(Len(playList) - 1)
           /\ playMode = 2 =>
                /\ IsBijection(shuffledPlayList, Len(playList))
                /\ shuffledIndex \in 0..(Len(playList) - 1)
                /\ currentIndex = ListAt(shuffledPlayList, shuffledIndex)

C15_Witness ==
    /\ ChangeAccepted
    /\ playMode = 2
    /\ session # NoSession
    /\ Len(playList) = MaxTracks
    /\ opReq.arg = -1

\* C16: the first initialize restores the saved session (current index,
\* current track, playback mode and elapsed position as the record has them)
\* exactly when the record has a lastSongId that identifies a track of the
\* loaded queue and is at most 12 hours old; otherwise the current index stays
\* -1, there is no current track and the mode and position stay as they were.
C16_SessionRestoredIff ==
    [][LET
        \* the saved id names a track of the list, whichever way the id is written
        IdentifiesTrack(id, list) == id # NoId /\ FindIndex(list, id) # -1
        IN (op' = "initReadDone" /\ opReq'.stage = "session" /\ opReq'.arg = 1)
              => LET idx == FindIndex(playList, session.lastSongId)
                 IN  IF /\ IdentifiesTrack(session.lastSongId, playList)
                        /\ session.stamped
                        /\ session.age <= SESSION_MAX_AGE
                     THEN /\ currentIndex' = idx
                          /\ currSong' = ListAt(playList, idx)
                          /\ playMode' = session.playMode
                          /\ playDuration' = session.lastPlayDuration
                     ELSE /\ currentIndex' = -1
                          /\ currSong' = 0
                          /\ UNCHANGED <<playMode, playDuration>>]_vars

\* C17: an initialize call made after an earlier initialize has completed
\* reads nothing and changes neither the playback state, the queue nor the
\* current index: it installs its callback table and emits one stateChange
\* and one songChange; and however initialize calls are issued, the download
\* records, the queue and the session are each loaded at most once.
C17_LoadedAtMostOnce ==
    /\ [](loads.downloaded <= 1 /\ loads.list <= 1 /\ loads.session <= 1)
    /\ [][(op' = "initialize" /\ isInitialized)
             => /\ UNCHANGED <<isPlaying, currSong, playMode, isFmMode,
                               playDuration, playList, currentIndex,
                               shuffledPlayList, shuffledIndex, initCalls,
                               loads, downloadedSongs, isInitialized>>
                /\ callbacks' = callbacks + 1
                /\ out' = <<Eff("stateChange", 0), Eff("songChange", currSong)>>]_vars

\* C18: every comparison of track ids treats the number n and the string "n"
\* as the same track: the queue lookup of play, the lastSongId lookup of the
\* session restore and the duplicate test of addTask each find the track
\* exactly when the id looked up has the track's number, however it is written.
C18_IdsCompareAsStrings ==
    \A lookup \in {"play", "restore", "download"} :
        probe[lookup] # "none"
            => (probe[lookup] = "same" <=> probe.id.n = probe.item)

\* C19: after any sequence of addTask calls and task completions the download
\* manager never holds two live tasks (queued or being downloaded) for the
\* same track id, and an addTask for an id that is queued or being downloaded
\* is rejected and leaves the queue, contents and length, as it was.
C19_NoDuplicateLiveTask ==
    /\ [](\A i, j \in 1..Len(dlQueue) :
              JsString(dlQueue[i].id) = JsString(dlQueue[j].id) => i = j)
    /\ [][\A id \in Ids :
                (/\ op' = "addTask"
                 /\ AddTask(id)
                 /\ \/ currentTask # NoId /\ JsString(currentTask) = JsString(id)
                    \/ \E k \in 1..Len(dlQueue) : JsString(dlQueue[k].id) = JsString(id))
                    => UNCHANGED dlQueue]_vars

\* C20: however addTask calls interleave with a running worker loop, at most
\* one worker loop is active and at most one task is being downloaded at any
\* moment, and the tasks are started in the order they were admitted.
C20_OneWorkerInOrder ==
    LET
        \* the invocations of _processQueue that are inside the loop
        ActiveWorkers == {w \in Workers : dlWorkers[w].pc # "none"}
    IN
        /\ Cardinality(ActiveWorkers) <= 1
        /\ isProcessing <=> ActiveWorkers # {}
        /\ Cardinality({w \in Workers : dlWorkers[w].pc = "downloading"}) <= 1
        /\ Cardinality({k \in 1..Len(dlQueue) : dlQueue[k].status = "downloading"}) <= 1
        /\ Len(started) <= Len(admitted)
        /\ \A k \in 1..Len(started) : started[k] = admitted[k]

C20_Witness ==
    /\ op = "addTask"
    /\ EffectsIn(out, "toast") # {} /\ out[1].a # 0
    /\ Len(admitted) = MaxTasks
    /\ Len(started) = MaxTasks - 1
    /\ \E w \in Workers : dlWorkers[w].pc = "downloading"
    /\ Len(dlQueue) = 2

\* C21: every task admitted by addTask is eventually started and concluded,
\* its onFinish invoked and the task out of the queue, whatever the outcome of
\* the tasks ahead of it, provided every download attempt settles; a failed
\* task does not stall the worker loop.  A task that clearQueue removed before
\* it was started is not expected to run.
C21_AdmittedTaskConcludes ==
    \A k \in 1..MaxTasks :
        (Len(admitted) >= k)
            ~> (\/ k \in cleared
                \/ /\ k \in finished
                   /\ \A j \in 1..Len(dlQueue) : dlQueue[j].no # k)

\* C22: after a download task has failed at the audio-placement step, and
\* once all file operations it started have completed, no audio file, lyric
\* file or cover file of the track remains on the persistent store.
C22_FailedPlacementLeavesNoFile ==
    LET
        \* every file operation the task started has completed
        FileOpsDone ==
            /\ deletes = {}
            /\ "pending" \notin {songResult, lyricResult}
    IN
        (flowPc = "failed" /\ songResult = "rejected" /\ FileOpsDone)
            => store = {}

\* C23: in both flows a task succeeds iff the play URL was obtained and the
\* audio placement succeeded; a missing lyric, a failed lyric write or a
\* failed cover lookup only removes the lyric or cover path from the record;
\* a missing play URL fails the task before any file operation is started.
C23_SuccessIffUrlAndAudio ==
    /\ (flowPc \in {"succeeded", "failed"} /\ songResult # "pending")
        => (flowPc = "succeeded"
                <=> songPlaybackInfo = "url" /\ songResult = "fulfilled")
    /\ flowPc = "succeeded"
        => /\ downloadedInfo.localLyricUri
                <=> lyricData = "data" /\ lyricResult = "fulfilled"
           /\ downloadedInfo.coverUrl => coverUrl = "local"
    /\ songPlaybackInfo = "missing"
        => /\ flowPc = "failed"
           /\ songResult = "none" /\ lyricResult = "none"

\* C24: keep-display-awake is engaged exactly while the worker is active: it
\* is enabled when processing starts on a non-empty queue and disabled once
\* the queue has drained, enable and disable calls strictly alternate, and the
\* display is always released after the queue has drained, whether the tasks
\* succeeded or failed.
C24_KeepAwakeWhileProcessing ==
    /\ [](keepScreenOn <=> isProcessing)
    /\ [][LET Did(o, e, a) == \E i \in EffectsIn(o, e) : o[i].a = a
          IN
          /\ Did(out', "screenKeep", 1)
              <=> ~isProcessing /\ isProcessing' /\ dlQueue' # <<>>
          /\ Did(out', "screenKeep", 0)
              <=> isProcessing /\ ~isProcessing' /\ dlQueue' = <<>>
          /\ Cardinality(EffectsIn(out', "screenKeep")) <= 1
          /\ Did(out', "screenKeep", 1) => ~keepScreenOn
          /\ Did(out', "screenKeep", 0) => keepScreenOn]_vars
    /\ (keepScreenOn ~> ~keepScreenOn)

\* the worker has run a failed task, has drained the queue and released the
\* display
C24_Witness ==
    /\ op = "downloadDone"
    /\ EffectsIn(out, "onError") # {}
    /\ (\E i \in EffectsIn(out, "screenKeep") : out[i].a = 0)
    /\ dlQueue = <<>>
    /\ ~keepScreenOn

\* C25: for any number of cover-resolution calls for the same (id, size) key
\* issued before the first completes, exactly one resolution runs, with at
\* most one metadata lookup and one download and placement, and every caller
\* receives the result, or the failure, of that single resolution.
C25_OneResolutionPerKey ==
    LET
        \* the jobs that have not settled
        RunningJobs == {j \in CoverCalls : coverJobs[j].pc \notin {"none", "done"}}
    IN
        LET
            \* the calls that have been issued and have no result yet
            PendingCalls == {c \in CoverCalls : coverCalls[c].job # 0 /\ coverCalls[c].result = "none"}
        IN
            /\ \A c \in PendingCalls, d \in PendingCalls :
                   coverCalls[c].key = coverCalls[d].key
                       => coverCalls[c].job = coverCalls[d].job
            /\ \A i \in RunningJobs, j \in RunningJobs :
                   coverJobs[i].key = coverJobs[j].key => i = j
            /\ \A c \in CoverCalls :
                   coverCalls[c].job # 0
                       => /\ coverJobs[coverCalls[c].job].key = coverCalls[c].key
                          /\ coverCalls[c].result = coverJobs[coverCalls[c].job].result
            /\ \A j \in CoverCalls :
                   /\ coverJobs[j].lookups <= 1
                   /\ coverJobs[j].downloads <= 1
                   /\ coverJobs[j].placements <= 1

\* three calls for one key were issued before the resolution settled, and all
\* three have its result
C25_Witness ==
    /\ \A c \in CoverCalls : coverCalls[c].job = 1 /\ coverCalls[c].result # "none"
    /\ coverJobs[1].downloads = 1

\* C26: for every key recorded in the persisted cover index, every
\* cover-resolution call for that key returns the local path and issues no
\* metadata lookup and no download, calls that overlap the first loading of
\* the index started by another call included.
C26_IndexedKeyIsLocal ==
    \A j \in CoverCalls :
        coverJobs[j].indexed
            => /\ coverJobs[j].lookups = 0
               /\ coverJobs[j].downloads = 0
               /\ coverJobs[j].result \in {"none", "local"}

\* C27: a cover resolution whose download to the temporary location fails, or
\* whose placement fails for both move and copy, returns the remote URL as a
\* normal result and leaves the cover index unchanged; a key is added to the
\* index only after a successful local placement of that key.
C27_IndexOnlyAfterPlacement ==
    [][LET
        \* the effects o hold the effect e of job j
        Did(o, e, j_) == \E i \in EffectsIn(o, e) : o[i].a = j_
        IN /\ \A j \in CoverCalls :
                  (\/ /\ coverJobs[j].pc = "temp" /\ op' = "tempDone"
                      /\ coverJobs'[j] # coverJobs[j]
                      /\ ~Did(out', "downloaded", j)
                   \/ /\ coverJobs[j].pc = "copy" /\ op' = "copyDone"
                      /\ coverJobs'[j] # coverJobs[j]
                      /\ ~Did(out', "placed", j))
                      => /\ coverJobs'[j].result = "remote"
                         /\ \A c \in CoverCalls :
                                coverCalls[c].job = j => coverCalls'[c].result = "remote"
                         /\ coverIndex' = coverIndex
                         /\ coverIndexFile' = coverIndexFile
           /\ \A k \in CoverKeys :
                  (k \in (coverIndex' \cup coverIndexFile')
                            \ (coverIndex \cup coverIndexFile))
                      => \E j \in CoverCalls :
                             /\ coverJobs[j].key = k
                             /\ Did(out', "placed", j)]_vars

\* a resolution has fallen back to the remote URL after move and copy both
\* failed, and its key is not in the index
C27_Witness ==
    /\ op = "copyDone"
    /\ \E j \in CoverCalls :
           /\ coverJobs[j].result = "remote"
           /\ coverJobs[j].placements = 1
           /\ coverJobs[j].key \notin coverIndex \cup coverIndexFile

\* ---- what a composed lyric text says, read off its tags and pieces ----

IsTag(seg) == seg.kind = "tag"

\* the time a tag denotes, in milliseconds
Denotes(tag) ==
    60000 * tag.m + 1000 * tag.s
        + (CASE tag.fw = 0 -> 0
             [] tag.fw = 1 -> 100 * tag.f
             [] tag.fw = 2 -> 10 * tag.f
             [] tag.fw = 3 -> tag.f)

\* the pieces ps without the blanks at either end
RECURSIVE Unblank(_)
Unblank(ps) ==
    LET
        IsBlank(seg) == seg.chars = <<" ">>
    IN
        IF ps = <<>> THEN ps
        ELSE IF IsBlank(Head(ps)) THEN Unblank(Tail(ps))
        ELSE IF IsBlank(ps[Len(ps)]) THEN Unblank(SubSeq(ps, 1, Len(ps) - 1))
        ELSE ps

\* the tags of a line, and its text once the tags are taken out
LineTags(segs) == SelectSeq(segs, IsTag)
LineText(segs) ==
    LET
        IsPiece(seg) == seg.kind = "text"
    IN
        WrittenLine(Unblank(SelectSeq(segs, IsPiece)))

\* the entries a line is to contribute: one per tag when it has a text
Contribution(segs) ==
    IF LineText(segs) = <<>> THEN <<>>
    ELSE [k \in 1..Len(LineTags(segs)) |->
             [time |-> Denotes(LineTags(segs)[k]), text |-> LineText(segs)]]

RECURSIVE Expected(_)
Expected(lines) ==
    IF lines = <<>> THEN <<>>
    ELSE Contribution(Head(lines)) \o Expected(Tail(lines))

\* how many times e occurs in the list es
Count(es, e) == Cardinality({i \in 1..Len(es) : es[i] = e})

\* C28: for every input text, parse returns a non-empty list sorted
\* non-decreasing by time that contains no entry with empty text; when no
\* tagged line with content survives, the result is exactly the single
\* placeholder entry at time 0.
C28_ParseResultWellFormed ==
    op = "parseLyric" =>
        /\ lyricOut # <<>>
        /\ \A i \in 1..(Len(lyricOut) - 1) : lyricOut[i].time <= lyricOut[i + 1].time
        /\ \A i \in 1..Len(lyricOut) : lyricOut[i].text # <<>>
        /\ (\A n \in 1..Len(lyricIn) :
                LineTags(lyricIn[n]) = <<>> \/ LineText(lyricIn[n]) = <<>>)
             => lyricOut = <<Placeholder>>

\* a text whose second line comes earlier than its first has been parsed
C28_Witness ==
    /\ op = "parseLyric"
    /\ Len(lyricIn) = 2
    /\ Contribution(lyricIn[1]) # <<>>
    /\ Contribution(lyricIn[2]) # <<>>
    /\ Contribution(lyricIn[1])[1].time > Contribution(lyricIn[2])[1].time
    /\ Len(lyricOut) >= 2

\* C29: a time tag with minutes m, seconds s and a fraction f of 1, 2 or 3
\* digits denotes 60000*m + 1000*s + (100*f, 10*f or f) ms, whether the
\* fraction follows a dot or a colon, and a tag without a fraction denotes
\* 60000*m + 1000*s; [00:01.50] and [00:01:50] both denote 1.5 seconds.
C29_TagDenotesTime ==
    (/\ op = "parseLyric"
     /\ Len(lyricIn) = 1
     /\ Len(lyricIn[1]) = 2
     /\ IsTag(lyricIn[1][1])
     /\ lyricIn[1][2] = Piece(<<"a">>))
        => lyricOut = <<[time |-> Denotes(lyricIn[1][1]), text |-> <<"a">>]>>

\* [00:01:50] has been parsed as 1.5 seconds
C29_Witness ==
    /\ op = "parseLyric"
    /\ lyricIn = <<<<Tag(0, 2, 1, 50, 2, ":"), Piece(<<"a">>)>>>>
    /\ lyricOut[1].time = 1500

\* C30: a line carrying k >= 1 time tags and a non-empty text once the tags
\* are stripped contributes exactly k entries, one per tag time, equal times
\* included, each carrying that text; a line whose text is empty after
\* stripping contributes no entry.
C30_OneEntryPerTag ==
    op = "parseLyric" =>
        LET expected == Expected(lyricIn)
        IN  IF expected = <<>>
            THEN lyricOut = <<Placeholder>>
            ELSE /\ Len(lyricOut) = Len(expected)
                 /\ \A i \in 1..Len(expected) :
                        Count(lyricOut, expected[i]) = Count(expected, expected[i])

\* a line with two tags of the same time and a text has been parsed, next to
\* a line of tags without text
C30_Witness ==
    /\ op = "parseLyric"
    /\ \E n \in 1..Len(lyricIn) :
           /\ Len(Contribution(lyricIn[n])) = 2
           /\ Contribution(lyricIn[n])[1] = Contribution(lyricIn[n])[2]
           /\ Count(lyricOut, Contribution(lyricIn[n])[1]) = 2
    /\ \E n \in 1..Len(lyricIn) :
           LineTags(lyricIn[n]) # <<>> /\ LineText(lyricIn[n]) = <<>>

\* ---- the lyric normaliser ----

\* C31 as stated: the type cook returns depends only on which of the
\* translation and romanization channels the payload has a text for: both
\* give japanese, romanization alone cantonese, translation alone english,
\* neither chinese.
C31_TypeByChannels ==
    op = "cook" =>
        LET Present(ch) == ch.has /\ WrittenText(ch.lines) # <<>>
        IN  cooked.type =
                CASE Present(cookIn.romalrc) /\ Present(cookIn.tlyric) -> "japanese"
                  [] Present(cookIn.romalrc) /\ ~Present(cookIn.tlyric) -> "cantonese"
                  [] ~Present(cookIn.romalrc) /\ Present(cookIn.tlyric) -> "english"
                  [] OTHER -> "chinese"

\* C31 as the code has it: the type depends only on the channels with a text
\* unless the payload is marked nolyric or uncollected and the copy of the
\* normaliser in use returns the fallback for such a payload; the type is
\* then chinese whatever the channels.
C31_TypeByChannelsUnlessMarked ==
    op = "cook" =>
        LET Present(ch) == ch.has /\ WrittenText(ch.lines) # <<>>
            marked == cookIn.version = "final" /\ (cookIn.nolyric \/ cookIn.uncollected)
        IN  cooked.type =
                CASE marked -> "chinese"
                  [] ~marked /\ Present(cookIn.romalrc) /\ Present(cookIn.tlyric) -> "japanese"
                  [] ~marked /\ Present(cookIn.romalrc) /\ ~Present(cookIn.tlyric) -> "cantonese"
                  [] ~marked /\ ~Present(cookIn.romalrc) /\ Present(cookIn.tlyric) -> "english"
                  [] OTHER -> "chinese"

\* cook has returned the fallback, of type chinese, for a payload marked
\* nolyric that has a translation and a romanization
C31_Witness ==
    /\ op = "cook"
    /\ cookIn.version = "final" /\ cookIn.nolyric
    /\ cookIn.tlyric.has /\ WrittenText(cookIn.tlyric.lines) # <<>>
    /\ cookIn.romalrc.has /\ WrittenText(cookIn.romalrc.lines) # <<>>
    /\ cooked.type = "chinese"

\* C32: in what cook returns for an original channel with content, a line has
\* a translation (a romanization) exactly when the text of that channel holds
\* a tagged line with content at the time of the line, and what is attached
\* is the text of such a line; the entry the parser makes up for a channel
\* without content is attached to no line.
C32_AttachedOnlyFromContent ==
    (/\ op = "cook"
     /\ ~(cookIn.version = "final" /\ (cookIn.nolyric \/ cookIn.uncollected))
     /\ cookIn.lrc.has /\ Expected(cookIn.lrc.lines) # <<>>)
        => \A i \in 1..Len(cooked.lines) :
               LET line == cooked.lines[i]
                   Says(ch, text) ==
                       /\ ch.has
                       /\ \E k \in 1..Len(Expected(ch.lines)) :
                              /\ Expected(ch.lines)[k].time = line.t
                              /\ text # <<>> => Expected(ch.lines)[k].text = text
               IN  /\ line.tr # <<>> <=> Says(cookIn.tlyric, <<>>)
                   /\ line.tr # <<>> => Says(cookIn.tlyric, line.tr)
                   /\ line.ro # <<>> <=> Says(cookIn.romalrc, <<>>)
                   /\ line.ro # <<>> => Says(cookIn.romalrc, line.ro)

\* C33: isCooked answers false for every object without a lines array and
\* for every object whose v is below 3, and true for every object that cook
\* or the fallback constructor has returned.
C33_IsCookedVerdict ==
    op = "isCooked" =>
        /\ cookProbe.lines.is # "array" => ~isCookedOut
        /\ (cookProbe.v.t \in {"number", "string"} /\ cookProbe.v.n < 3) => ~isCookedOut
        /\ cookProbe.from \in {"cook", "fallback"} => isCookedOut

\* isCooked has accepted what cook returned for a payload with two original
\* lines
C33_Witness ==
    /\ op = "isCooked"
    /\ cookProbe.from = "cook"
    /\ Len(cooked.lines) >= 2
    /\ isCookedOut

\* C34: one play attempt raises the retry counter by at most one and
\* schedules at most one automatic change(+1), whatever failure signals
\* arrive for it.  Stated for an attempt whose timeout has fired and has been
\* counted (the retry it scheduled has started the newest attempt): the
\* rejection of its catalog request afterwards is not counted again and
\* schedules no further retry.
C34_OneFailurePerAttempt ==
    [][(op' = "urlDone" /\ opReq'.byRetry)
          => \A i \in 1..Len(out') :
                 /\ out'[i].e # "setTimeout"
                 /\ ~(out'[i].e = "toast" /\ out'[i].a >= 1)]_vars

\* C35: in list mode, whenever the player is playing, there is a current
\* track, the current index lies inside the queue and the current track is the
\* one the queue holds at that index.  Stated for the moments when no change
\* is outstanding (while one is, the index is ahead of the track by design).
C35_PlayingTrackIsAtIndex ==
    (~isFmMode /\ isPlaying /\ ~isChangingSong)
        => /\ currSong # 0
           /\ currentIndex \in 0..(Len(playList) - 1)
           /\ currSong = ListAt(playList, currentIndex)

\* C36: whenever the reentrancy guard is set it is eventually cleared, also
\* when a request of the attempt (a play-URL request or the FM refill) never
\* completes: the playback timeout bounds every attempt.
C36_GuardEventuallyCleared == isChangingSong ~> ~isChangingSong

\* C37: every loading(true) notification is eventually followed by a
\* loading(false) notification, on every way a play attempt can end: once the
\* attempt has ended (the guard is clear again), the UI is told so.
C37_LoadingEventuallyOff == (loading /\ ~isChangingSong) ~> ~loading

\* C38: the queue entry removed when a task concludes is that task, also when
\* clearQueue has been called during its download: an admitted task that is
\* no longer in the queue has been concluded by the worker, is still held by
\* the worker, or was taken out by clearQueue before it was started.
C38_RemovedEntryIsConcluded ==
    \A k \in 1..Len(admitted) :
        (\A j \in 1..Len(dlQueue) : dlQueue[j].no # k)
            => \/ k \in finished \cup cleared
               \/ \E w \in Workers : dlWorkers[w].no = k

\* ---------------------------------------------------------------------
\* Callbacks that raise: addTask with callbacks of which one throws, the
\* downloads settling either way, the pauses running out
\* ---------------------------------------------------------------------
MaxRaisingTasks == 2    \* tasks admitted in a run with raising callbacks

FairCallbacks ==
    /\ InitDownload
    /\ [][\/ \E n \in 1..MaxRaisingTasks,
                raises \in {"none", "onStart", "onSuccess", "onError", "onFinish"} :
                /\ Len(admitted) < MaxRaisingTasks
                /\ AddTaskWith(Num(n), raises)
          \/ \E w \in Workers, ok \in BOOLEAN : DownloadDone(w, ok)
          \/ \E w \in Workers : GapDone(w)]_vars
    /\ WF_vars(\E w \in Workers, ok \in BOOLEAN : DownloadDone(w, ok))
    /\ WF_vars(\E w \in Workers : GapDone(w))

\* C39: when a download has settled the worker calls exactly one of
\* onSuccess and onError and then onFinish once, and, whichever callback
\* raises, the worker does not stay marked as processing and the request to
\* keep the display awake does not stay engaged
C39_CallbacksOnceAndReleased ==
    /\ [](op = "downloadDone" =>
            LET calls == SelectSeq(out, LAMBDA x :
                             x.e \in {"onSuccess", "onError", "onFinish"})
            IN  /\ Len(calls) = 2
                /\ calls[1].e \in {"onSuccess", "onError"}
                /\ calls[2].e = "onFinish")
    /\ (isProcessing ~> ~isProcessing)
    /\ (keepScreenOn ~> ~keepScreenOn)

\* ---------------------------------------------------------------------
\* settingsService (settings.js, kept in api.js): get and toggle
\* ---------------------------------------------------------------------
\* A JavaScript value is a record with its type t: a number or undefined as
\* Num and NoId above, a string with its text s, an object with its
\* properties f, an array with its elements f.  A path is the sequence of
\* the names that '.' separates in it, so split('.') and join('.') are this
\* sequence and back.  lyricAdvanceTime is counted in tenths.

\* PRESETS
PRESETS ==
    LET Text(s) == [s |-> s, t |-> "string"]
        Object(f) == [f |-> f, t |-> "object"]
        Numbers(ns) == [f |-> [i \in DOMAIN ns |-> Num(ns[i])], t |-> "array"]
        Texts(ss) == [f |-> [i \in DOMAIN ss |-> Text(ss[i])], t |-> "array"]
    IN  Object([lyrics |-> Object([japaneseMode |-> Texts(<<"translation", "romaji", "original">>),
                                   cantoneseMode |-> Texts(<<"romaji", "original">>),
                                   englishMode |-> Texts(<<"translation", "original">>)]),
                lyricAdvanceTime |-> Numbers(<<0, 3, 5, 8, 10, 12, 15, 18, 20>>),
                audioQuality |-> Object([online |-> Numbers(<<64, 128, 192, 320, 990>>),
                                         download |-> Numbers(<<64, 128, 192, 320>>)]),
                performance |-> Object([windowSize |-> Numbers(<<10, 20, 40>>),
                                        pageSize |-> Numbers(<<10, 15, 20>>)]),
                network |-> Object([totalLimit |-> Numbers(<<50, 200, 500, 1000>>),
                                    apiPageSize |-> Numbers(<<10, 20, 50>>)]),
                search |-> Object([totalLimit |-> Numbers(<<10, 25, 50>>),
                                   apiPageSize |-> Numbers(<<5, 10, 25>>)]),
                gestures |-> Texts(<<"none", "lyrics", "playlist", "search", "user",
                                     "settings", "prev", "next">>)])

\* o[k] for a value o that is not undefined and a name k that is no index
\* and no built-in property: the property of an object, undefined otherwise
Prop(o, k) == IF o.t = "object" /\ k \in DOMAIN o.f THEN o.f[k] ELSE NoId

\* a value taken as a condition
Truthy(v) ==
    CASE v.t = "undefined" -> FALSE
      [] v.t = "number" -> v.n # 0
      [] v.t = "string" -> v.s # ""
      [] OTHER -> TRUE

RECURSIVE SettingsGet(_, _)
\* get(path), as the reduce over the names of the path, from the value o
SettingsGet(o, keys) ==
    IF keys = <<>> THEN o
    ELSE SettingsGet(IF Truthy(o) THEN Prop(o, Head(keys)) ELSE NoId, Tail(keys))

RECURSIVE SettingsPut(_, _, _)
\* parentObject[lastKey] = v, where parentObject is the object reached from
\* o by all the names of the path but the last
SettingsPut(o, path, v) ==
    IF Len(path) = 1
    THEN [o EXCEPT !.f = [k \in DOMAIN o.f \cup {path[1]} |->
                              IF k = path[1] THEN v ELSE o.f[k]]]
    ELSE [o EXCEPT !.f[Head(path)] = SettingsPut(@, Tail(path), v)]

\* toggle(path) on the settings o: the settings after it and how it ended
\* ("set": assigned and saved, "invalid": logged and returned, "TypeError":
\* thrown before anything was assigned)
SettingsToggle(o, path) ==
    LET lastKey == path[Len(path)]
        \* keys after keys.pop(); a name it does not hold reads undefined,
        \* which as a property name is "undefined"
        keys == SubSeq(path, 1, Len(path) - 1)
        KeyAt(i) == IF i <= Len(keys) THEN keys[i] ELSE "undefined"
        parentPath == keys # <<>>
        parentObject == IF parentPath THEN SettingsGet(o, keys) ELSE o
        group == Prop(PRESETS, KeyAt(1))
        presets == IF parentPath THEN Prop(group, KeyAt(2)) ELSE Prop(PRESETS, lastKey)
        currentValue == Prop(parentObject, lastKey)
        \* currentIndex: presets.indexOf(currentValue), from 0, -1 when absent
        valueIndex ==
            IF \E i \in DOMAIN presets.f : presets.f[i] = currentValue
            THEN (CHOOSE i \in DOMAIN presets.f :
                     /\ presets.f[i] = currentValue
                     /\ \A j \in 1..(i - 1) : presets.f[j] # currentValue) - 1
            ELSE -1
        nextIndex == (valueIndex + 1) % Len(presets.f)
    IN  IF parentPath /\ group.t = "undefined"
        THEN [settings |-> o, ended |-> "TypeError"]
        ELSE IF ~Truthy(parentObject) \/ ~Truthy(presets)
        THEN [settings |-> o, ended |-> "invalid"]
        ELSE IF presets.t # "array" \/ parentObject.t # "object"
        THEN [settings |-> o, ended |-> "TypeError"]
        ELSE [settings |-> SettingsPut(o, path, presets.f[nextIndex + 1]),
              ended |-> "set"]

\* toggle(path)
Toggle(path) ==
    LET r == SettingsToggle(settings, path)
        s == Enter(S, "toggle", NoOp)
    IN  Becomes([s EXCEPT !.settings = r.settings,
                          !.toggled = [path |-> path, was |-> settings],
                          !.out = IF r.ended = "set" THEN <<Eff("save", 0)>>
                                  ELSE IF r.ended = "invalid" THEN <<Eff("console.error", 0)>>
                                  ELSE <<Eff("throw", 0)>>])

\* the paths toggle is called with: the settings that have presets, one of
\* each group, the group gestures itself, and a path of no group
SettingPaths ==
    {<<"lyricAdvanceTime">>, <<"audioQuality", "online">>, <<"lyrics", "japaneseMode">>,
     <<"gestures", "left">>, <<"performance", "windowSize">>}

\* the settings after load: _defaults merged with what the file holds, which
\* is any value for a setting
InitSettings ==
    LET Text(s) == [s |-> s, t |-> "string"]
        Object(f) == [f |-> f, t |-> "object"]
    IN  \E advance \in {0, 7, 18, 20}, online \in {64, 96, 990},
           japaneseMode \in {"translation", "original", "none"},
           left \in {"lyrics", "next", "back"}, windowSize \in {30, 40} :
            IsState([Loaded(<<>>, [kind |-> "ok", batch |-> <<>>]) EXCEPT
                !.settings =
                    Object([lyrics |-> Object([japaneseMode |-> Text(japaneseMode),
                                               cantoneseMode |-> Text("romaji"),
                                               englishMode |-> Text("translation")]),
                            lyricAdvanceTime |-> Num(advance),
                            gestures |-> Object([left |-> Text(left),
                                                 right |-> Text("playlist"),
                                                 up |-> Text("none"),
                                                 down |-> Text("none")]),
                            audioQuality |-> Object([online |-> Num(online),
                                                     download |-> Num(128)]),
                            performance |-> Object([windowSize |-> Num(windowSize),
                                                    pageSize |-> Num(15)]),
                            network |-> Object([totalLimit |-> Num(500),
                                                apiPageSize |-> Num(20)]),
                            search |-> Object([totalLimit |-> Num(25),
                                               apiPageSize |-> Num(10)])])])

SpecSettings ==
    InitSettings
        /\ [][\E path \in SettingPaths \cup {<<"gestures">>, <<"theme", "dark">>} :
                 Toggle(path)]_vars

\* C40: toggle(path) of a setting that has presets leaves at path the preset
\* after the value that was there, the first preset after the last one and
\* after a value that is no preset, for a path of one name as for a path of
\* two; and as many toggles as the setting has presets lead from a preset
\* back to it
C40_ToggleStepsThroughPresets ==
    \A path \in SettingPaths :
        LET list == IF Len(path) = 1 THEN Prop(PRESETS, path[1])
                    ELSE IF path[1] = "gestures" THEN Prop(PRESETS, "gestures")
                    ELSE Prop(Prop(PRESETS, path[1]), path[2])
            presets == list.f
            After(v) == IF \E i \in 1..(Len(presets) - 1) : presets[i] = v
                        THEN presets[(CHOOSE i \in 1..(Len(presets) - 1) : presets[i] = v) + 1]
                        ELSE presets[1]
            Times[n \in 0..Len(presets)] ==
                IF n = 0 THEN settings
                ELSE SettingsToggle(Times[n - 1], path).settings
            isSetting == SettingsGet(settings, path).t \in {"number", "string"}
        IN  /\ (op = "toggle" /\ toggled.path = path
                    /\ SettingsGet(toggled.was, path).t \in {"number", "string"}) =>
                   SettingsGet(settings, path) = After(SettingsGet(toggled.was, path))
            /\ (isSetting /\ \E i \in DOMAIN presets : presets[i] = SettingsGet(settings, path)) =>
                   SettingsGet(Times[Len(presets)], path) = SettingsGet(settings, path)

====
